---- MODULE Spec2Model ----
(***************************************************************************)
(* A model of the job scraper: the canonical record and its dedup hash     *)
(* (models.py), the deduplicator (csv_manager.py), the field normalisers   *)
(* (base_scraper.py, indeed_scraper.py, jsearch_scraper.py,                *)
(* python_org_scraper.py), the adapters' run loops and the orchestrator's  *)
(* scraping session (main.py).                                             *)
(*                                                                         *)
(* Python strings are sequences of one-character strings, so that lower(), *)
(* replace(), substring tests and the salary regular expression are        *)
(* computed character by character.                                        *)
(***************************************************************************)
EXTENDS Integers, Sequences, FiniteSets, TLC

VARIABLES
    \* --- deduplication (csv_manager.py: deduplicate_jobs) ---
    dedup_pc,       \* "idle" | "input" | "once" | "twice"
    X,              \* the list handed to deduplicate_jobs
    once,           \* deduplicate_jobs(X)
    twice,          \* deduplicate_jobs(deduplicate_jobs(X))
    \* --- salary parsing (base_scraper.py: parse_salary) ---
    salary_pc,      \* "idle" | "input" | "done"
    salary_text,    \* the argument of parse_salary
    salary_result,  \* the pair parse_salary returned
    \* --- normalisation (extract_job_from_card, parse_job, create_job_listing) ---
    norm_pc,        \* "idle" | "raw" | "done"
    adapter,        \* "indeed" | "jsearch" | "python_org": whose normaliser runs
    raw,            \* the raw record: a job card, an API item or a listing's job_data
    norm_job,       \* <<>> (no record: None was returned) or <<the JobListing>>
    \* --- the orchestrator and its scrapers (main.py, base_scraper.py, jsearch_scraper.py) ---
    config,         \* ScraperConfig: keywords, locations, max_jobs_per_platform, platforms, jsearch_api_key
    scrapers,       \* JobScraperOrchestrator.scrapers: the platform names, in dict order
    stats,          \* scraper.stats of each scraper: a ScraperStats
    driver,         \* scraper.driver of each scraper: "None" | "open" | "quit"
    sessions,       \* how many times run_scraping_session was called
    session_pc,     \* "idle" | "loop" | "done" | "raised": where run_scraping_session is
    cur,            \* position in self.scrapers.items() of the loop of run_scraping_session
    all_jobs,       \* run_scraping_session: all_jobs
    all_stats,      \* run_scraping_session: all_stats (the scrapers whose stats object it holds)
    returned,       \* what each scraper's run() returned in this session
    session_unique, \* run_scraping_session: unique_jobs
    jobs_file,      \* <<>> or <<the jobs save_jobs wrote in this session>>
    run_pc,         \* "idle" | "tasks": where the running scraper's run() is
    ki,             \* run(): position in config.keywords
    li,             \* run(): position in config.locations
    run_jobs,       \* run(): all_jobs
    task_log,       \* the task fetches of the current (or last) run, in order, with their outcome
    \* --- one scrape_jobs call of an adapter, on the pages the site gives it ---
    fetch_pc,       \* "idle" | "ready" | "loop" | "done"
    fetch_adapter,  \* "indeed" | "jsearch" | "python_org"
    fetch_pages,    \* what the site answers to the successive page requests
    fetch_limit,    \* config.max_jobs_per_platform
    fetch_result,   \* <<>> or <<what scrape_jobs did and returned>>
    \* --- the page loop of one scrape_jobs call, pass by pass (fetch_pc = "loop") ---
    loop_jobs,      \* scrape_jobs: jobs
    loop_page,      \* scrape_jobs: page
    requested,      \* the values of page the requests were sent with, in order
    \* --- merging new jobs into a saved file (csv_manager.py) ---
    merge_pc,       \* "idle" | "input" | "saved" | "done"
    existing_jobs,  \* the jobs save_jobs was called with
    existing_file,  \* the rows of the CSV file save_jobs wrote
    new_jobs,       \* the new jobs handed to merge_with_existing
    merged          \* <<>>, <<the list merge_with_existing returned>>, or <<"raised">>

dedupVars == <<dedup_pc, X, once, twice>>
salaryVars == <<salary_pc, salary_text, salary_result>>
normVars == <<norm_pc, adapter, raw, norm_job>>
sessionVars ==
    <<config, scrapers, stats, driver, sessions, session_pc, cur, all_jobs, all_stats,
      returned, session_unique, jobs_file, run_pc, ki, li, run_jobs, task_log>>

fetchVars == <<fetch_pc, fetch_adapter, fetch_pages, fetch_limit, fetch_result>>

loopVars == <<loop_jobs, loop_page, requested>>
mergeVars == <<merge_pc, existing_jobs, existing_file, new_jobs, merged>>

vars == <<dedupVars, salaryVars, normVars, sessionVars, fetchVars, loopVars, mergeVars>>

\* The variables of a specification that is not running keep these values.
DedupIdle ==
    /\ dedup_pc = "idle"
    /\ X = <<>>
    /\ once = <<>>
    /\ twice = <<>>

SalaryIdle ==
    /\ salary_pc = "idle"
    /\ salary_text = <<>>
    /\ salary_result = <<>>

NormIdle ==
    /\ norm_pc = "idle"
    /\ adapter = "none"
    /\ raw = <<>>
    /\ norm_job = <<>>

FetchIdle ==
    /\ fetch_pc = "idle"
    /\ fetch_adapter = "none"
    /\ fetch_pages = <<>>
    /\ fetch_limit = 0
    /\ fetch_result = <<>>

LoopIdle ==
    /\ loop_jobs = <<>>
    /\ loop_page = 0
    /\ requested = <<>>

MergeIdle ==
    /\ merge_pc = "idle"
    /\ existing_jobs = <<>>
    /\ existing_file = <<>>
    /\ new_jobs = <<>>
    /\ merged = <<>>

SessionIdle ==
    /\ config = <<>>
    /\ scrapers = <<>>
    /\ stats = <<>>
    /\ driver = <<>>
    /\ sessions = 0
    /\ session_pc = "off"
    /\ cur = 0
    /\ all_jobs = <<>>
    /\ all_stats = <<>>
    /\ returned = <<>>
    /\ session_unique = <<>>
    /\ jobs_file = <<>>
    /\ run_pc = "idle"
    /\ ki = 0
    /\ li = 0
    /\ run_jobs = <<>>
    /\ task_log = <<>>

(***************************************************************************)
(* Strings                                                                 *)
(***************************************************************************)

\* Python's None where a str is expected: no string of characters equals it.
None == <<"<None>">>

UpperChars == <<"A", "B", "C", "D", "E", "F", "G", "H", "I", "J", "K", "L", "M", "N", "O", "P", "Q", "R", "S", "T", "U", "V", "W", "X", "Y", "Z">>

LowerChars == <<"a", "b", "c", "d", "e", "f", "g", "h", "i", "j", "k", "l", "m", "n", "o", "p", "q", "r", "s", "t", "u", "v", "w", "x", "y", "z">>

\* str.lower() on one character.
LowerChar(c) ==
    IF \E i \in 1..Len(UpperChars) : UpperChars[i] = c
    THEN LowerChars[CHOOSE i \in 1..Len(UpperChars) : UpperChars[i] = c]
    ELSE c

\* str.lower()
Lower(s) == [i \in 1..Len(s) |-> LowerChar(s[i])]

\* str.upper() on one character.
UpperChar(c) ==
    IF \E i \in 1..Len(LowerChars) : LowerChars[i] = c
    THEN UpperChars[CHOOSE i \in 1..Len(LowerChars) : LowerChars[i] = c]
    ELSE c

\* str.upper()
Upper(s) == [i \in 1..Len(s) |-> UpperChar(s[i])]

\* `word in s` on Python strings: `word` occurs in `s` as a substring.
Contains(s, word) ==
    \E i \in 1..(Len(s) - Len(word) + 1) : SubSeq(s, i, i + Len(word) - 1) = word

\* any(word in s for word in words)
AnyIn(words, s) == \E word \in words : Contains(s, word)

\* All sequences over S of length at most n.
SeqsUpTo(S, n) == UNION {[1..k -> S] : k \in 0..n}

s_dev == <<"d", "e", "v">>
s_Dev == <<"D", "e", "v">>
s_dev_ops == <<"d", "e", "v", "_", "o", "p", "s">>
s_acme == <<"a", "c", "m", "e">>
s_ops_acme == <<"o", "p", "s", "_", "a", "c", "m", "e">>
s_ny == <<"n", "y">>
s_NY == <<"N", "Y">>

(***************************************************************************)
(* models.py: JobListing.generate_hash                                     *)
(***************************************************************************)

\* hashlib.md5(...).hexdigest(): a digest no two of the model's strings share
\* (collisions of MD5 are outside the model).
md5_hexdigest(s) == <<"md5:">> \o s

\* f"{self.title.lower()}_{self.company.lower()}_{self.location.lower()}"
unique_str(job) ==
    Lower(job.title) \o <<"_">> \o Lower(job.company) \o <<"_">> \o Lower(job.location)

generate_hash(job) == md5_hexdigest(unique_str(job))

\* None.lower() raises AttributeError.
generate_hash_raises(job) ==
    job.title = None \/ job.company = None \/ job.location = None

(***************************************************************************)
(* csv_manager.py: CSVManager.deduplicate_jobs                             *)
(***************************************************************************)

\* The for loop of deduplicate_jobs from position i on.
RECURSIVE dedup_loop(_, _, _, _)
dedup_loop(jobs, i, seen_hashes, unique_jobs) ==
    IF i > Len(jobs) THEN unique_jobs
    ELSE LET job_hash == generate_hash(jobs[i]) IN
         IF job_hash \notin seen_hashes
         THEN dedup_loop(jobs, i + 1, seen_hashes \cup {job_hash}, Append(unique_jobs, jobs[i]))
         ELSE dedup_loop(jobs, i + 1, seen_hashes, unique_jobs)

\* Mutant: unique_jobs.insert(0, job) in place of unique_jobs.append(job).
RECURSIVE dedup_loop_prepend(_, _, _, _)
dedup_loop_prepend(jobs, i, seen_hashes, unique_jobs) ==
    IF i > Len(jobs) THEN unique_jobs
    ELSE LET job_hash == generate_hash(jobs[i]) IN
         IF job_hash \notin seen_hashes
         THEN dedup_loop_prepend(jobs, i + 1, seen_hashes \cup {job_hash}, <<jobs[i]>> \o unique_jobs)
         ELSE dedup_loop_prepend(jobs, i + 1, seen_hashes, unique_jobs)

deduplicate_jobs_prepend(jobs) == dedup_loop_prepend(jobs, 1, {}, <<>>)

\* Mutant: a later record with a seen hash replaces the kept one (last seen wins).
RECURSIVE dedup_loop_lastwins(_, _, _)
dedup_loop_lastwins(jobs, i, unique_jobs) ==
    IF i > Len(jobs) THEN unique_jobs
    ELSE LET job_hash == generate_hash(jobs[i]) IN
         IF \E k \in 1..Len(unique_jobs) : generate_hash(unique_jobs[k]) = job_hash
         THEN dedup_loop_lastwins(jobs, i + 1,
                  [k \in 1..Len(unique_jobs) |->
                      IF generate_hash(unique_jobs[k]) = job_hash THEN jobs[i] ELSE unique_jobs[k]])
         ELSE dedup_loop_lastwins(jobs, i + 1, Append(unique_jobs, jobs[i]))

deduplicate_jobs_lastwins(jobs) == dedup_loop_lastwins(jobs, 1, <<>>)

deduplicate_jobs(jobs) == dedup_loop(jobs, 1, {}, <<>>)

\* deduplicate_jobs raises when generate_hash raises for a record of the list.
deduplicate_jobs_raises(jobs) ==
    \E i \in 1..Len(jobs) : generate_hash_raises(jobs[i])

(***************************************************************************)
(* Specification SpecDedup: deduplicate_jobs applied to a list, and again  *)
(* to its own output.                                                      *)
(***************************************************************************)

\* Bound: the length of the list handed to deduplicate_jobs.
MaxJobs == 3

DedupTitles == {s_dev, s_Dev, s_dev_ops}
DedupCompanies == {s_acme, s_ops_acme}
DedupLocations == {s_ny, s_NY}
DedupIdentities == {<<"j1", "indeed">>, <<"j2", "linkedin">>}

DedupRecords ==
    {[job_id |-> id[1], platform |-> id[2], title |-> t, company |-> c, location |-> l] :
        id \in DedupIdentities, t \in DedupTitles, c \in DedupCompanies, l \in DedupLocations}

InitDedup ==
    /\ dedup_pc = "input"
    /\ X \in SeqsUpTo(DedupRecords, MaxJobs)
    /\ once = <<>>
    /\ twice = <<>>
    /\ SalaryIdle
    /\ NormIdle
    /\ SessionIdle
    /\ FetchIdle
    /\ LoopIdle
    /\ MergeIdle

ApplyDedup ==
    /\ dedup_pc = "input"
    /\ once' = deduplicate_jobs(X)
    /\ dedup_pc' = "once"
    /\ UNCHANGED <<X, twice, salaryVars, normVars, sessionVars, fetchVars, loopVars, mergeVars>>

ApplyDedupAgain ==
    /\ dedup_pc = "once"
    /\ twice' = deduplicate_jobs(once)
    /\ dedup_pc' = "twice"
    /\ UNCHANGED <<X, once, salaryVars, normVars, sessionVars, fetchVars, loopVars, mergeVars>>

NextDedup == ApplyDedup \/ ApplyDedupAgain

SpecDedup == InitDedup /\ [][NextDedup]_vars

(***************************************************************************)
(* Claims on deduplication                                                 *)
(***************************************************************************)

\* The lower-cased (title, company, location) triple of a record.
LowerTriple(job) == <<Lower(job.title), Lower(job.company), Lower(job.location)>>

\* C1: deduplicate_jobs treats two records as duplicates if and only if their
\* lower-cased (title, company, location) triples are equal: records equal on
\* the triple always collapse (no two kept records share a triple) and records
\* that differ on it never collapse (every triple of the input is kept).
C1_DuplicateIffTripleEqual ==
    dedup_pc = "once" =>
        /\ \A i, j \in 1..Len(once) :
              LowerTriple(once[i]) = LowerTriple(once[j]) => i = j
        /\ {LowerTriple(X[i]) : i \in 1..Len(X)} = {LowerTriple(once[i]) : i \in 1..Len(once)}

\* C2: deduplication is idempotent: deduplicate_jobs(deduplicate_jobs(X)) equals
\* deduplicate_jobs(X), same records in the same order.
C2_DedupIdempotent ==
    dedup_pc = "twice" => twice = once

\* C2 witness: the second application ran on a list whose first application
\* dropped a record and kept at least two.
C2_Witness ==
    dedup_pc = "twice" /\ Len(once) < Len(X) /\ Len(once) >= 2

\* The subsequence of `jobs` at the positions whose hash occurs at no earlier position.
FirstSeen(jobs) ==
    LET keep(j) == \A i \in 1..(j - 1) : generate_hash(jobs[i]) # generate_hash(jobs[j])
        F[j \in 0..Len(jobs)] ==
            IF j = 0 THEN <<>>
            ELSE IF keep(j) THEN Append(F[j - 1], jobs[j]) ELSE F[j - 1]
    IN F[Len(jobs)]

\* C3: deduplication is first-seen-wins and order-stable: the output is the
\* subsequence of the input made of exactly the records whose dedup key occurs
\* at no earlier position; for two records with equal keys the first is kept.
C3_FirstSeenWins ==
    dedup_pc = "once" =>
        /\ once = FirstSeen(X)
        /\ (Len(X) = 2 /\ generate_hash(X[1]) = generate_hash(X[2])) => once = <<X[1]>>

\* C3 witness: two different records with equal keys were deduplicated and
\* the first was kept.
C3_Witness ==
    /\ dedup_pc = "once"
    /\ Len(X) = 2
    /\ X[1] # X[2]
    /\ generate_hash(X[1]) = generate_hash(X[2])
    /\ once = <<X[1]>>

(***************************************************************************)
(* base_scraper.py: BaseScraper.parse_salary                               *)
(***************************************************************************)

Digits == <<"0", "1", "2", "3", "4", "5", "6", "7", "8", "9">>

IsDigit(c) == \E d \in 1..Len(Digits) : Digits[d] = c

DigitValue(c) == (CHOOSE d \in 1..Len(Digits) : Digits[d] = c) - 1

\* Whether `word` occurs in `s` at position i.
OccursAt(s, word, i) ==
    /\ i + Len(word) - 1 <= Len(s)
    /\ SubSeq(s, i, i + Len(word) - 1) = word

\* str.replace(old, ''): the occurrences of `old` removed, left to right, not
\* overlapping (`old` is not empty).
RECURSIVE remove_from(_, _, _)
remove_from(s, old, i) ==
    IF i > Len(s) THEN <<>>
    ELSE IF OccursAt(s, old, i) THEN remove_from(s, old, i + Len(old))
    ELSE <<s[i]>> \o remove_from(s, old, i + 1)

str_remove(s, old) == remove_from(s, old, 1)

\* The last position of the run of digits that starts at i (i - 1 when s[i] is
\* no digit or i is past the end): the greedy \d* of the pattern.
DigitRunEnd(s, i) ==
    CHOOSE j \in (i - 1)..Len(s) :
        /\ \A t \in i..j : IsDigit(s[t])
        /\ (j = Len(s) \/ ~IsDigit(s[j + 1]))

\* re.findall(r'\d+\.?\d*', s) from position i on: the matches, left to right,
\* not overlapping, each greedy.
RECURSIVE findall_numbers(_, _)
findall_numbers(s, i) ==
    IF i > Len(s) THEN <<>>
    ELSE IF ~IsDigit(s[i]) THEN findall_numbers(s, i + 1)
    ELSE LET j == DigitRunEnd(s, i)
             k == IF j + 1 <= Len(s) /\ s[j + 1] = "." THEN j + 1 ELSE j
             m == DigitRunEnd(s, k + 1)
         IN <<SubSeq(s, i, m)>> \o findall_numbers(s, m + 1)

\* int() of a string of digits.
RECURSIVE digits_value(_)
digits_value(ds) ==
    IF ds = <<>> THEN 0
    ELSE digits_value(SubSeq(ds, 1, Len(ds) - 1)) * 10 + DigitValue(ds[Len(ds)])

\* The digits `ds` without their trailing zeros.
RECURSIVE strip_zeros(_)
strip_zeros(ds) ==
    IF ds # <<>> /\ ds[Len(ds)] = "0" THEN strip_zeros(SubSeq(ds, 1, Len(ds) - 1)) ELSE ds

\* float() of a match of the pattern (digits, an optional point, digits): the
\* whole part as a number and the decimals as digits, exact.
float_of(token) ==
    LET j == DigitRunEnd(token, 1)
    IN [whole |-> digits_value(SubSeq(token, 1, j)),
        frac |-> strip_zeros(SubSeq(token, j + 2, Len(token)))]

\* A whole amount as a float of the model.
Amount(n) == [whole |-> n, frac |-> <<>>]

\* Whether decimals `f` are at most decimals `g` (digit by digit, missing digits 0).
FracLeq(f, g) ==
    \/ \A t \in 1..Len(f) : t <= Len(g) /\ f[t] = g[t]
    \/ \E t \in 1..Len(f) :
         /\ \A u \in 1..(t - 1) : u <= Len(g) /\ f[u] = g[u]
         /\ t <= Len(g)
         /\ DigitValue(f[t]) < DigitValue(g[t])

\* a <= b on floats of the model.
FloatLeq(a, b) ==
    \/ a.whole < b.whole
    \/ a.whole = b.whole /\ FracLeq(a.frac, b.frac)

\* Optional[float]: None, or a value.
NoValue == <<>>
Value(v) == <<v>>

\* The text after the four replace() calls of parse_salary.
salary_cleaned(text) ==
    str_remove(str_remove(str_remove(str_remove(Lower(text), <<"a", " ", "y", "e", "a", "r">>), <<"a", "n", " ", "h", "o", "u", "r">>), <<",">>), <<"$">>)

\* Mutant: min/max reordering of the first two numbers.
parse_salary_sorted(text) ==
    IF text = <<>> \/ text = None THEN <<NoValue, NoValue>>
    ELSE LET numbers == findall_numbers(salary_cleaned(text), 1) IN
         IF Len(numbers) >= 2
         THEN LET a == float_of(numbers[1])
                  b == float_of(numbers[2])
              IN IF FloatLeq(a, b) THEN <<Value(a), Value(b)>> ELSE <<Value(b), Value(a)>>
         ELSE IF Len(numbers) = 1
         THEN <<Value(float_of(numbers[1])), Value(float_of(numbers[1]))>>
         ELSE <<NoValue, NoValue>>

parse_salary(text) ==
    IF text = <<>> \/ text = None THEN <<NoValue, NoValue>>
    ELSE LET numbers == findall_numbers(salary_cleaned(text), 1) IN
         IF Len(numbers) >= 2
         THEN <<Value(float_of(numbers[1])), Value(float_of(numbers[2]))>>
         ELSE IF Len(numbers) = 1
         THEN <<Value(float_of(numbers[1])), Value(float_of(numbers[1]))>>
         ELSE <<NoValue, NoValue>>

(***************************************************************************)
(* Specification SpecSalary: parse_salary applied to a salary text.        *)
(***************************************************************************)

\* Bound: the number of segments a salary text is made of.
MaxSegments == 3

SalarySegments ==
    { <<"$", "4", "5">>, <<"$", "6", "0">>, <<"/", "h", "r">>, <<" ", "-", " ">>, <<" ", "a", " ", "y", "e", "a", "r">>,
      <<" ", "A", "n", " ", "H", "o", "u", "r">>, <<"1", "7", ".", "5", "0">>, <<".">>, <<",">>, <<"3">> }

\* The salary texts of the specification's examples, one with the greater
\* amount first and one with three amounts.
SalaryExamples ==
    { <<"$", "8", "0", ",", "0", "0", "0", " ", "-", " ", "$", "1", "0", "0", ",", "0", "0", "0", " ", "a", " ", "y", "e", "a", "r">>, <<"$", "4", "5", "/", "h", "r">>,
      <<"$", "1", "0", "0", ",", "0", "0", "0", " ", "-", " ", "$", "8", "0", ",", "0", "0", "0", " ", "a", " ", "y", "e", "a", "r">>, <<"$", "6", "0", " ", "-", " ", "$", "4", "5", " ", "o", "r", " ", "3">> }

RECURSIVE Concat(_)
Concat(ss) == IF ss = <<>> THEN <<>> ELSE Head(ss) \o Concat(Tail(ss))

SalaryTexts ==
    {Concat(ss) : ss \in SeqsUpTo(SalarySegments, MaxSegments)} \cup SalaryExamples

InitSalary ==
    /\ salary_pc = "input"
    /\ salary_text \in SalaryTexts
    /\ salary_result = <<>>
    /\ DedupIdle
    /\ NormIdle
    /\ SessionIdle
    /\ FetchIdle
    /\ LoopIdle
    /\ MergeIdle

ApplyParseSalary ==
    /\ salary_pc = "input"
    /\ salary_result' = parse_salary(salary_text)
    /\ salary_pc' = "done"
    /\ UNCHANGED <<salary_text, dedupVars, normVars, sessionVars, fetchVars, loopVars, mergeVars>>

NextSalary == ApplyParseSalary

SpecSalary == InitSalary /\ [][NextSalary]_vars

(***************************************************************************)
(* Claims on salary parsing                                                *)
(***************************************************************************)

\* The numeric tokens of the cleaned text, as values, in text order.
SalaryTokens(text) ==
    LET numbers == findall_numbers(salary_cleaned(text), 1)
    IN [n \in 1..Len(numbers) |-> float_of(numbers[n])]

\* C7: parse_salary maps the numeric tokens of the cleaned text to a pair: no
\* token (or empty text) gives (None, None), one token v gives (v, v), two or
\* more give (first, second) in text order, not reordered, the rest ignored;
\* "$80,000 - $100,000 a year" gives (80000, 100000), "$45/hr" gives (45, 45).
C7_ParseSalary ==
    salary_pc = "done" =>
        LET toks == SalaryTokens(salary_text) IN
        /\ Len(toks) = 0 => salary_result = <<NoValue, NoValue>>
        /\ Len(toks) = 1 => salary_result = <<Value(toks[1]), Value(toks[1])>>
        /\ Len(toks) >= 2 => salary_result = <<Value(toks[1]), Value(toks[2])>>
        /\ salary_text = <<>> => salary_result = <<NoValue, NoValue>>
        /\ salary_text = <<"$", "8", "0", ",", "0", "0", "0", " ", "-", " ", "$", "1", "0", "0", ",", "0", "0", "0", " ", "a", " ", "y", "e", "a", "r">>
             => salary_result = <<Value(Amount(80000)), Value(Amount(100000))>>
        /\ salary_text = <<"$", "4", "5", "/", "h", "r">>
             => salary_result = <<Value(Amount(45)), Value(Amount(45))>>

\* C7 witness: a text with three tokens, the first greater than the second,
\* was parsed to (first, second).
C7_Witness ==
    /\ salary_pc = "done"
    /\ Len(SalaryTokens(salary_text)) >= 3
    /\ ~FloatLeq(SalaryTokens(salary_text)[1], SalaryTokens(salary_text)[2])
    /\ salary_result = <<Value(SalaryTokens(salary_text)[1]), Value(SalaryTokens(salary_text)[2])>>

(***************************************************************************)
(* The classification values of a JobListing (models.py)                   *)
(***************************************************************************)

full_time == <<"f", "u", "l", "l", "-", "t", "i", "m", "e">>
part_time == <<"p", "a", "r", "t", "-", "t", "i", "m", "e">>
contract == <<"c", "o", "n", "t", "r", "a", "c", "t">>
internship == <<"i", "n", "t", "e", "r", "n", "s", "h", "i", "p">>
entry == <<"e", "n", "t", "r", "y">>
mid == <<"m", "i", "d">>
senior == <<"s", "e", "n", "i", "o", "r">>
remote == <<"r", "e", "m", "o", "t", "e">>
hybrid == <<"h", "y", "b", "r", "i", "d">>
on_site == <<"o", "n", "-", "s", "i", "t", "e">>

(***************************************************************************)
(* indeed_scraper.py: IndeedScraper.extract_job_from_card                  *)
(***************************************************************************)

\* f"indeed_{int(time.time() * 1000)}": the id of a card without a data-jk.
indeed_generated_id == "indeed_<time>"

indeed_remote_type(title, snippet) ==
    IF \E word \in {<<"r", "e", "m", "o", "t", "e">>, <<"w", "o", "r", "k", " ", "f", "r", "o", "m", " ", "h", "o", "m", "e">>} :
          Contains(Lower(title), word) \/ Contains(Lower(snippet), word)
    THEN remote
    ELSE IF Contains(Lower(title), <<"h", "y", "b", "r", "i", "d">>) \/ Contains(Lower(snippet), <<"h", "y", "b", "r", "i", "d">>)
    THEN hybrid
    ELSE on_site

indeed_job_type(snippet) ==
    LET snippet_lower == Lower(snippet) IN
    IF Contains(snippet_lower, <<"p", "a", "r", "t", "-", "t", "i", "m", "e">>) \/ Contains(snippet_lower, <<"p", "a", "r", "t", " ", "t", "i", "m", "e">>)
    THEN part_time
    ELSE IF Contains(snippet_lower, <<"c", "o", "n", "t", "r", "a", "c", "t">>) \/ Contains(snippet_lower, <<"c", "o", "n", "t", "r", "a", "c", "t", "o", "r">>)
    THEN contract
    ELSE full_time

indeed_experience_level(title, snippet) ==
    IF \E word \in {<<"s", "e", "n", "i", "o", "r">>, <<"l", "e", "a", "d">>, <<"p", "r", "i", "n", "c", "i", "p", "a", "l">>} :
          Contains(Lower(title), word) \/ Contains(Lower(snippet), word)
    THEN senior
    ELSE IF \E word \in {<<"j", "u", "n", "i", "o", "r">>, <<"e", "n", "t", "r", "y">>, <<"a", "s", "s", "o", "c", "i", "a", "t", "e">>} :
          Contains(Lower(title), word) \/ Contains(Lower(snippet), word)
    THEN entry
    ELSE mid

\* The card's texts are what safe_get_text and safe_get_attribute returned: a
\* string, empty when the element is missing.
extract_job_from_card(card, keyword, location) ==
    LET salary == parse_salary(card.salary_text) IN
    [job_id |-> IF card.data_jk # "" THEN card.data_jk ELSE indeed_generated_id,
     platform |-> "indeed",
     title |-> card.title,
     company |-> card.company,
     location |-> IF card.job_location # <<>> THEN card.job_location ELSE location,
     salary_min |-> salary[1],
     salary_max |-> salary[2],
     job_type |-> indeed_job_type(card.snippet),
     experience_level |-> indeed_experience_level(card.title, card.snippet),
     remote_type |-> indeed_remote_type(card.title, card.snippet),
     description |-> card.snippet]

(***************************************************************************)
(* jsearch_scraper.py: JSearchScraper.parse_job and its helpers            *)
(***************************************************************************)

\* Mutant: mapping.get(employment_type) without the 'full-time' default.
map_employment_type_nodefault(employment_type) ==
    LET e == Upper(employment_type) IN
    IF e = <<"F", "U", "L", "L", "T", "I", "M", "E">> THEN full_time
    ELSE IF e = <<"P", "A", "R", "T", "T", "I", "M", "E">> THEN part_time
    ELSE IF e = <<"C", "O", "N", "T", "R", "A", "C", "T", "O", "R">> THEN contract
    ELSE IF e = <<"I", "N", "T", "E", "R", "N">> THEN internship
    ELSE None

map_employment_type(employment_type) ==
    LET e == Upper(employment_type) IN
    IF e = <<"F", "U", "L", "L", "T", "I", "M", "E">> THEN full_time
    ELSE IF e = <<"P", "A", "R", "T", "T", "I", "M", "E">> THEN part_time
    ELSE IF e = <<"C", "O", "N", "T", "R", "A", "C", "T", "O", "R">> THEN contract
    ELSE IF e = <<"I", "N", "T", "E", "R", "N">> THEN internship
    ELSE full_time

senior_keywords ==
    {<<"s", "e", "n", "i", "o", "r">>, <<"s", "r", ".">>, <<"l", "e", "a", "d">>, <<"p", "r", "i", "n", "c", "i", "p", "a", "l">>, <<"s", "t", "a", "f", "f">>, <<"a", "r", "c", "h", "i", "t", "e", "c", "t">>, <<"d", "i", "r", "e", "c", "t", "o", "r">>}

entry_keywords ==
    {<<"j", "u", "n", "i", "o", "r">>, <<"j", "r", ".">>, <<"e", "n", "t", "r", "y">>, <<"a", "s", "s", "o", "c", "i", "a", "t", "e">>, <<"g", "r", "a", "d", "u", "a", "t", "e">>, <<"i", "n", "t", "e", "r", "n">>}

\* detect_experience_level with the two tests the other way round (entry
\* first), against which the claim on the precedence is tested.
detect_experience_level_entry_first(title, description) ==
    LET text == Lower(title \o << " " >> \o description) IN
    IF AnyIn(entry_keywords, text) THEN entry
    ELSE IF AnyIn(senior_keywords, text) THEN senior
    ELSE mid

detect_experience_level(title, description) ==
    LET text == Lower(title \o << " " >> \o description) IN
    IF AnyIn(senior_keywords, text) THEN senior
    ELSE IF AnyIn(entry_keywords, text) THEN entry
    ELSE mid

detect_platform(apply_url) ==
    LET url_lower == Lower(apply_url) IN
    IF Contains(url_lower, <<"l", "i", "n", "k", "e", "d", "i", "n">>) THEN "linkedin"
    ELSE IF Contains(url_lower, <<"g", "l", "a", "s", "s", "d", "o", "o", "r">>) THEN "glassdoor"
    ELSE IF Contains(url_lower, <<"i", "n", "d", "e", "e", "d">>) THEN "indeed"
    ELSE IF Contains(url_lower, <<"z", "i", "p", "r", "e", "c", "r", "u", "i", "t", "e", "r">>) THEN "ziprecruiter"
    ELSE IF Contains(url_lower, <<"g", "o", "o", "g", "l", "e">>) THEN "google_jobs"
    ELSE "jsearch"

\* ', '.join(filter(None, parts)): the parts that are neither None nor empty.
RECURSIVE join_location(_)
join_location(parts) ==
    LET kept == SelectSeq(parts, LAMBDA part : part # None /\ part # <<>>) IN
    IF kept = <<>> THEN <<>>
    ELSE IF Len(kept) = 1 THEN kept[1]
    ELSE kept[1] \o <<",", " ">> \o join_location(Tail(kept))

\* parse_job's try block raises (and parse_job returns None) when a method is
\* called on a null: job_title.lower(), job_description.lower() or
\* job_employment_type.upper().
parse_job_raises(data) ==
    \/ data.job_title = None
    \/ data.job_description = None
    \/ data.job_employment_type = None

jsearch_remote_type(data) ==
    IF Contains(Lower(data.job_title), <<"h", "y", "b", "r", "i", "d">>) \/ Contains(Lower(data.job_description), <<"h", "y", "b", "r", "i", "d">>)
    THEN hybrid
    ELSE IF data.job_is_remote THEN remote ELSE on_site

\* <<>> when parse_job returns None, else <<the JobListing>>.
parse_job(data) ==
    IF parse_job_raises(data) THEN <<>>
    ELSE
    << [job_id |-> data.job_id,
        platform |-> detect_platform(data.job_apply_link),
        title |-> data.job_title,
        company |-> data.employer_name,
        location |-> join_location(<<data.job_city, data.job_state, data.job_country>>),
        salary_min |-> data.job_min_salary,
        salary_max |-> data.job_max_salary,
        job_type |-> map_employment_type(Upper(data.job_employment_type)),
        experience_level |-> detect_experience_level(data.job_title, data.job_description),
        remote_type |-> jsearch_remote_type(data),
        description |-> data.job_description] >>

(***************************************************************************)
(* python_org_scraper.py: PythonOrgScraper.create_job_listing              *)
(***************************************************************************)

python_org_generated_id == "python_org_<time>"

python_org_remote_type(job_data) ==
    LET location_text == Lower(job_data.location \o << " " >> \o job_data.description) IN
    IF AnyIn({<<"r", "e", "m", "o", "t", "e">>, <<"w", "o", "r", "k", " ", "f", "r", "o", "m", " ", "h", "o", "m", "e">>, <<"w", "f", "h">>}, location_text) THEN remote
    ELSE IF Contains(location_text, <<"h", "y", "b", "r", "i", "d">>) THEN hybrid
    ELSE on_site

python_org_job_type(job_data) ==
    LET t == Lower(job_data.job_type) IN
    IF t = <<"f", "u", "l", "l", "-", "t", "i", "m", "e">> THEN full_time
    ELSE IF t = <<"p", "a", "r", "t", "-", "t", "i", "m", "e">> THEN part_time
    ELSE IF t = <<"c", "o", "n", "t", "r", "a", "c", "t">> THEN contract
    ELSE IF t = <<"f", "r", "e", "e", "l", "a", "n", "c", "e">> THEN contract
    ELSE full_time

python_org_experience_level(job_data) ==
    LET title_desc == Lower(job_data.title \o << " " >> \o job_data.description) IN
    IF AnyIn({<<"s", "e", "n", "i", "o", "r">>, <<"l", "e", "a", "d">>, <<"p", "r", "i", "n", "c", "i", "p", "a", "l">>}, title_desc) THEN senior
    ELSE IF AnyIn({<<"j", "u", "n", "i", "o", "r">>, <<"e", "n", "t", "r", "y">>, <<"i", "n", "t", "e", "r", "n">>}, title_desc) THEN entry
    ELSE mid

create_job_listing(job_data) ==
    [job_id |-> python_org_generated_id,
     platform |-> "python_org",
     title |-> job_data.title,
     company |-> job_data.company,
     location |-> job_data.location,
     salary_min |-> NoValue,
     salary_max |-> NoValue,
     job_type |-> python_org_job_type(job_data),
     experience_level |-> python_org_experience_level(job_data),
     remote_type |-> python_org_remote_type(job_data),
     description |-> job_data.description]

(***************************************************************************)
(* Specification SpecNorm: one raw record of one adapter, normalised.      *)
(***************************************************************************)

\* Bound: the number of words a snippet or description is made of.
MaxWords == 2

NormTitles == {<<"D", "e", "v">>, <<"S", "e", "n", "i", "o", "r", " ", "D", "e", "v">>, <<"R", "e", "m", "o", "t", "e", " ", "I", "n", "t", "e", "r", "n">>}

NormWords ==
    { <<"R", "e", "m", "o", "t", "e">>, <<"h", "y", "b", "r", "i", "d">>, <<"S", "e", "n", "i", "o", "r">>, <<"j", "u", "n", "i", "o", "r">>,
      <<"c", "o", "n", "t", "r", "a", "c", "t">>, <<"p", "a", "r", "t", "-", "t", "i", "m", "e">>, <<"p", "y", "t", "h", "o", "n">>, <<"w", "o", "r", "k", " ", "f", "r", "o", "m", " ", "h", "o", "m", "e">> }

\* ' '.join(words)
RECURSIVE JoinWords(_)
JoinWords(ws) ==
    IF ws = <<>> THEN <<>>
    ELSE IF Len(ws) = 1 THEN ws[1]
    ELSE ws[1] \o << " " >> \o JoinWords(Tail(ws))

NormTexts == {JoinWords(ws) : ws \in SeqsUpTo(NormWords, MaxWords)}

\* The search task the card was found for.
NormKeyword == <<"p", "y", "t", "h", "o", "n">>
NormLocation == <<"R", "e", "m", "o", "t", "e">>

IndeedCards ==
    {[data_jk |-> "jk1", title |-> t, company |-> s_acme, job_location |-> s_NY,
      salary_text |-> st, snippet |-> sn] :
        t \in NormTitles, sn \in NormTexts,
        st \in {<<>>, <<"$", "4", "5", "/", "h", "r">>, <<"$", "8", "0", ",", "0", "0", "0", " ", "-", " ", "$", "1", "0", "0", ",", "0", "0", "0", " ", "a", " ", "y", "e", "a", "r">>, <<"$", "1", "0", "0", ",", "0", "0", "0", " ", "-", " ", "$", "8", "0", ",", "0", "0", "0", " ", "a", " ", "y", "e", "a", "r">>}}

JSearchItem(t, d, e, r, lo, hi, c) ==
    [job_id |-> "js1", job_title |-> t, employer_name |-> c,
     job_city |-> s_NY, job_state |-> <<>>, job_country |-> <<"U", "S">>,
     job_min_salary |-> lo, job_max_salary |-> hi,
     job_employment_type |-> e, job_is_remote |-> r,
     job_description |-> d, job_apply_link |-> <<"h", "t", "t", "p", "s", ":", "/", "/", "w", "w", "w", ".", "l", "i", "n", "k", "e", "d", "i", "n", ".", "c", "o", "m", "/", "j", "o", "b", "s", "/", "1">>]

JSearchEmploymentTypes ==
    {<<"F", "U", "L", "L", "T", "I", "M", "E">>, <<"p", "a", "r", "t", "t", "i", "m", "e">>, <<"C", "O", "N", "T", "R", "A", "C", "T", "O", "R">>, <<"I", "N", "T", "E", "R", "N">>, <<"T", "E", "M", "P", "O", "R", "A", "R", "Y">>, <<>>, None}

JSearchSalaries ==
    { <<NoValue, NoValue>>, <<Value(Amount(50000)), Value(Amount(90000))>>,
      <<Value(Amount(90000)), Value(Amount(50000))>>, <<Value(Amount(50000)), NoValue>> }

JSearchItems ==
    {JSearchItem(t, d, e, r, NoValue, NoValue, s_acme) :
        t \in NormTitles \cup {None}, d \in NormTexts \cup {None},
        e \in JSearchEmploymentTypes, r \in BOOLEAN}
    \cup
    {JSearchItem(t, d, <<"F", "U", "L", "L", "T", "I", "M", "E">>, FALSE, sal[1], sal[2], c) :
        t \in NormTitles, d \in NormTexts, sal \in JSearchSalaries, c \in {s_acme, None}}

PythonOrgJobData ==
    {[title |-> t, company |-> s_acme, location |-> l, job_type |-> jt, description |-> d] :
        t \in NormTitles, d \in NormTexts,
        l \in {<<"R", "e", "m", "o", "t", "e">>, <<"N", "e", "w", " ", "Y", "o", "r", "k", ",", " ", "U", "S", "A">>},
        jt \in {<<"F", "u", "l", "l", "-", "t", "i", "m", "e">>, <<"C", "o", "n", "t", "r", "a", "c", "t">>, <<"F", "r", "e", "e", "l", "a", "n", "c", "e">>, <<"N", "/", "A">>}}

InitNorm ==
    /\ norm_pc = "raw"
    /\ \/ adapter = "indeed" /\ raw \in IndeedCards
       \/ adapter = "jsearch" /\ raw \in JSearchItems
       \/ adapter = "python_org" /\ raw \in PythonOrgJobData
    /\ norm_job = <<>>
    /\ DedupIdle
    /\ SalaryIdle
    /\ SessionIdle
    /\ FetchIdle
    /\ LoopIdle
    /\ MergeIdle

NormalizeIndeed ==
    /\ norm_pc = "raw"
    /\ adapter = "indeed"
    /\ norm_job' = <<extract_job_from_card(raw, NormKeyword, NormLocation)>>
    /\ norm_pc' = "done"
    /\ UNCHANGED <<adapter, raw, dedupVars, salaryVars, sessionVars, fetchVars, loopVars, mergeVars>>

NormalizeJSearch ==
    /\ norm_pc = "raw"
    /\ adapter = "jsearch"
    /\ norm_job' = parse_job(raw)
    /\ norm_pc' = "done"
    /\ UNCHANGED <<adapter, raw, dedupVars, salaryVars, sessionVars, fetchVars, loopVars, mergeVars>>

NormalizePythonOrg ==
    /\ norm_pc = "raw"
    /\ adapter = "python_org"
    /\ norm_job' = <<create_job_listing(raw)>>
    /\ norm_pc' = "done"
    /\ UNCHANGED <<adapter, raw, dedupVars, salaryVars, sessionVars, fetchVars, loopVars, mergeVars>>

NextNorm == NormalizeIndeed \/ NormalizeJSearch \/ NormalizePythonOrg

SpecNorm == InitNorm /\ [][NextNorm]_vars

(***************************************************************************)
(* Claims on the normalised record                                         *)
(***************************************************************************)

\* The title and the description (the snippet, for a job card) of the raw record.
RawTitle == IF adapter = "jsearch" THEN raw.job_title ELSE raw.title

RawDescription ==
    IF adapter = "jsearch" THEN raw.job_description
    ELSE IF adapter = "indeed" THEN raw.snippet
    ELSE raw.description

\* Every text of the raw record a classifier may read, lower-cased.
RawText ==
    Lower(RawTitle \o << " " >> \o RawDescription
          \o << " " >> \o (IF adapter = "python_org" THEN raw.location ELSE <<>>))

NormDone == norm_pc = "done" /\ norm_job # <<>>

\* C8: every job record an adapter produces has salary_min <= salary_max when
\* both are present.
C8_SalaryMinLeqMax ==
    NormDone =>
        LET j == norm_job[1] IN
        (j.salary_min # NoValue /\ j.salary_max # NoValue)
            => FloatLeq(j.salary_min[1], j.salary_max[1])

JobTypes == {full_time, part_time, contract, internship}
ExperienceLevels == {entry, mid, senior}
RemoteTypes == {remote, hybrid, on_site}

\* The keywords and employment types some adapter recognises.
JobTypeKeywords ==
    {<<"p", "a", "r", "t", "-", "t", "i", "m", "e">>, <<"p", "a", "r", "t", " ", "t", "i", "m", "e">>, <<"c", "o", "n", "t", "r", "a", "c", "t">>, <<"c", "o", "n", "t", "r", "a", "c", "t", "o", "r">>}
RecognisedTypes ==
    {<<"f", "u", "l", "l", "t", "i", "m", "e">>, <<"p", "a", "r", "t", "t", "i", "m", "e">>, <<"c", "o", "n", "t", "r", "a", "c", "t", "o", "r">>, <<"i", "n", "t", "e", "r", "n">>,
     <<"f", "u", "l", "l", "-", "t", "i", "m", "e">>, <<"p", "a", "r", "t", "-", "t", "i", "m", "e">>, <<"c", "o", "n", "t", "r", "a", "c", "t">>, <<"f", "r", "e", "e", "l", "a", "n", "c", "e">>}
ExperienceKeywords ==
    senior_keywords \cup entry_keywords
RemoteKeywords == {<<"r", "e", "m", "o", "t", "e">>, <<"w", "o", "r", "k", " ", "f", "r", "o", "m", " ", "h", "o", "m", "e">>, <<"w", "f", "h">>, <<"h", "y", "b", "r", "i", "d">>}

\* The employment type the source gave, lower-cased (none in a job card).
RawType ==
    IF adapter = "jsearch" THEN Lower(raw.job_employment_type)
    ELSE IF adapter = "python_org" THEN Lower(raw.job_type)
    ELSE <<>>

\* C9: every record an adapter returns is fully classified: job_type,
\* experience_level and remote_type are values of their enumerations, never
\* null, and input with no recognised keyword (or an unrecognised employment
\* type) yields the defaults full-time, mid and on-site.
C9_FullyClassified ==
    NormDone =>
        LET j == norm_job[1] IN
        /\ j.job_type \in JobTypes
        /\ j.experience_level \in ExperienceLevels
        /\ j.remote_type \in RemoteTypes
        /\ (~AnyIn(JobTypeKeywords, RawText) /\ RawType \notin RecognisedTypes)
              => j.job_type = full_time
        /\ ~AnyIn(ExperienceKeywords, RawText) => j.experience_level = mid
        /\ (~AnyIn(RemoteKeywords, RawText) /\ ~(adapter = "jsearch" /\ raw.job_is_remote))
              => j.remote_type = on_site

\* C9 witness: an API item with an unrecognised employment type and no
\* keyword in its texts was given the three defaults.
C9_Witness ==
    /\ NormDone
    /\ adapter = "jsearch"
    /\ raw.job_employment_type = <<"T", "E", "M", "P", "O", "R", "A", "R", "Y">>
    /\ ~AnyIn(ExperienceKeywords \cup RemoteKeywords \cup JobTypeKeywords, RawText)
    /\ ~raw.job_is_remote
    /\ norm_job[1].job_type = full_time
    /\ norm_job[1].experience_level = mid
    /\ norm_job[1].remote_type = on_site

\* The record's inputs signal remote: a remote keyword in the title or the
\* description, or job_is_remote in the API adapter.
RemoteSignal ==
    \/ AnyIn({<<"r", "e", "m", "o", "t", "e">>, <<"w", "o", "r", "k", " ", "f", "r", "o", "m", " ", "h", "o", "m", "e">>}, Lower(RawTitle))
    \/ AnyIn({<<"r", "e", "m", "o", "t", "e">>, <<"w", "o", "r", "k", " ", "f", "r", "o", "m", " ", "h", "o", "m", "e">>}, Lower(RawDescription))
    \/ adapter = "jsearch" /\ raw.job_is_remote

\* The record's inputs signal hybrid: "hybrid" in the title or the description.
HybridSignal ==
    Contains(Lower(RawTitle), <<"h", "y", "b", "r", "i", "d">>) \/ Contains(Lower(RawDescription), <<"h", "y", "b", "r", "i", "d">>)

\* C10: in every adapter, a record whose inputs signal both remote and hybrid
\* has remote_type remote.
C10_RemotePrecedence ==
    NormDone => ((RemoteSignal /\ HybridSignal) => norm_job[1].remote_type = remote)

(***************************************************************************)
(* The page loops of the two shipped adapters.  A scrape is computed from  *)
(* the sequence of responses the site or the API gives to the successive   *)
(* page requests of one (keyword, location) task; once that sequence is    *)
(* used up the site has no more cards and the API no more data.            *)
(***************************************************************************)

\* jsearch_scraper.py: "if len(data['data']) < 10" - the API's page size.
PageSize == 10

\* A listing page of Indeed: kind is "cards" | "timeout" | "error"; a card is
\* <<job>>, or <<>> when extracting it raises.
CardsPage(cards) == [kind |-> "cards", items |-> cards]
TimeoutPage == [kind |-> "timeout", items |-> <<>>]
ErrorPage == [kind |-> "error", items |-> <<>>]

\* A response of the JSearch API: kind is "ok" | "429" | "403" | "http_error" |
\* "transport_error"; an item is <<job>>, or <<>> when parse_job returns None.
DataPage(items) == [kind |-> "ok", items |-> items]
StatusPage(kind) == [kind |-> kind, items |-> <<>>]

\* Variants of the for-loop, against which the claims are tested: one without
\* the check of the limit, one that gives up the page at an item without a job.
RECURSIVE collect_items_nolimit(_, _, _, _)
collect_items_nolimit(items, i, jobs, max_jobs) ==
    IF i > Len(items) THEN jobs
    ELSE collect_items_nolimit(items, i + 1,
                               IF items[i] = <<>> THEN jobs ELSE Append(jobs, items[i][1]),
                               max_jobs)

RECURSIVE collect_items_giveup(_, _, _, _)
collect_items_giveup(items, i, jobs, max_jobs) ==
    IF i > Len(items) \/ Len(jobs) >= max_jobs THEN jobs
    ELSE IF items[i] = <<>> THEN jobs
    ELSE collect_items_giveup(items, i + 1, Append(jobs, items[i][1]), max_jobs)

\* The for-loop over the cards or items of one page: stop at the limit, skip
\* what did not give a job.
RECURSIVE collect_items(_, _, _, _)
collect_items(items, i, jobs, max_jobs) ==
    IF i > Len(items) \/ Len(jobs) >= max_jobs THEN jobs
    ELSE collect_items(items, i + 1,
                       IF items[i] = <<>> THEN jobs ELSE Append(jobs, items[i][1]),
                       max_jobs)

\* IndeedScraper.scrape_jobs: page counts from 0; the result tells the jobs
\* returned, the pages requested, the rate-limit delays applied and how the
\* page loop ended.
RECURSIVE indeed_pages(_, _, _, _)
indeed_pages(pages, max_jobs, jobs, page) ==
    IF Len(jobs) >= max_jobs
    THEN [jobs |-> jobs, requests |-> page, rate_limits |-> page, failure |-> "none"]
    ELSE LET resp == IF page + 1 <= Len(pages) THEN pages[page + 1] ELSE CardsPage(<<>>)
         IN  IF resp.kind # "cards"
             THEN [jobs |-> jobs, requests |-> page + 1, rate_limits |-> page,
                   failure |-> resp.kind]
             ELSE IF resp.items = <<>>
             THEN [jobs |-> jobs, requests |-> page + 1, rate_limits |-> page,
                   failure |-> "none"]
             ELSE indeed_pages(pages, max_jobs,
                               collect_items(resp.items, 1, jobs, max_jobs), page + 1)

indeed_scrape_jobs(pages, max_jobs) == indeed_pages(pages, max_jobs, <<>>, 0)

\* The entries of ScraperStats.error_messages.
TaskMessage(k, l) == [kind |-> "task", keyword |-> k, location |-> l]
RateLimitMessage == [kind |-> "Rate limit exceeded", keyword |-> 0, location |-> 0]
FatalMessage == [kind |-> "Fatal", keyword |-> 0, location |-> 0]
WebDriverMessage == [kind |-> "WebDriver init error", keyword |-> 0, location |-> 0]

\* JSearchScraper.scrape_jobs: page counts from 1; errors and messages are what
\* the loop adds to self.stats.
RECURSIVE jsearch_pages(_, _, _, _)
jsearch_pages(pages, max_jobs, jobs, page) ==
    IF Len(jobs) >= max_jobs
    THEN [jobs |-> jobs, requests |-> page - 1, errors |-> 0, messages |-> <<>>,
          failure |-> "none"]
    ELSE LET resp == IF page <= Len(pages) THEN pages[page] ELSE DataPage(<<>>)
         IN  IF resp.kind = "429"
             THEN [jobs |-> jobs, requests |-> page, errors |-> 1,
                   messages |-> <<RateLimitMessage>>, failure |-> "429"]
             ELSE IF resp.kind # "ok"
             THEN [jobs |-> jobs, requests |-> page, errors |-> 1, messages |-> <<>>,
                   failure |-> resp.kind]
             ELSE IF resp.items = <<>> \/ Len(resp.items) < PageSize
             THEN [jobs |-> collect_items(resp.items, 1, jobs, max_jobs),
                   requests |-> page, errors |-> 0, messages |-> <<>>, failure |-> "none"]
             ELSE jsearch_pages(pages, max_jobs,
                                collect_items(resp.items, 1, jobs, max_jobs), page + 1)

jsearch_scrape_jobs(pages, max_jobs) == jsearch_pages(pages, max_jobs, <<>>, 1)

(***************************************************************************)
(* Spec: scraping sessions of one JobScraperOrchestrator.  The orchestrator *)
(* is constructed once; schedule_scraping then calls run_scraping_session   *)
(* again and again on the same scraper objects.                             *)
(***************************************************************************)

MaxKeywords == 2
MaxLocations == 2
MaxLimit == 2
MaxSessions == 2
VariedTasks == 2

\* The job records the sources return in sessions (the fields the session
\* reads: generate_hash reads title, company and location).
SessionJob(id, platform, title, company, location) ==
    [job_id |-> id, platform |-> platform, title |-> title, company |-> company,
     location |-> location]

IndeedDev == SessionJob("indeed_1", "indeed", s_Dev, s_acme, s_NY)
IndeedDevOps == SessionJob("indeed_2", "indeed", s_dev_ops, s_acme, s_NY)
JSearchDev == SessionJob("jsearch_1", "linkedin", s_Dev, s_acme, s_NY)
\* parse_job with "employer_name": null
JSearchNoCompany == SessionJob("jsearch_2", "glassdoor", s_dev_ops, None, s_ny)

\* What Indeed answers to the page requests of one task.
IndeedScripts ==
    { <<>>,
      <<CardsPage(<< <<IndeedDev>> >>)>>,
      <<CardsPage(<< <<IndeedDev>>, <<IndeedDevOps>> >>)>>,
      <<TimeoutPage>>,
      <<CardsPage(<< <<IndeedDevOps>> >>), ErrorPage>> }

\* What the JSearch API answers to the page requests of one task.
JSearchScripts ==
    { <<>>,
      <<DataPage(<< <<JSearchDev>> >>)>>,
      <<DataPage(<< <<JSearchDev>>, <<JSearchNoCompany>> >>)>>,
      <<StatusPage("429")>>,
      <<StatusPage("403")>>,
      <<StatusPage("http_error")>>,
      <<StatusPage("transport_error")>> }

\* A configuration of more than VariedTasks tasks is followed on sites that
\* answer a task plainly: with no result, or with jobs that are the task's own
\* (the job_id tells the platform, the keyword, the location, the page and the
\* position in the page), so that the jobs of different tasks can be told
\* apart in the lists of the session.
Wide(cfg) == cfg.keywords * cfg.locations > VariedTasks

TaskJobId(platform, k, l, page, pos) ==
    platform \o "_" \o ToString(k) \o "_" \o ToString(l) \o "_" \o ToString(page)
             \o "_" \o ToString(pos)

IndeedTaskJob(k, l, page, pos) ==
    SessionJob(TaskJobId("indeed", k, l, page, pos), "indeed", s_Dev, s_acme, s_NY)
JSearchTaskJob(k, l, page, pos) ==
    SessionJob(TaskJobId("jsearch", k, l, page, pos), "linkedin", s_Dev, s_acme, s_NY)

\* Indeed: no cards; two cards on one page; one card on each of two pages.
IndeedScriptsOf(cfg, k, l) ==
    IF Wide(cfg)
    THEN { <<>>,
           <<CardsPage(<< <<IndeedTaskJob(k, l, 1, 1)>>, <<IndeedTaskJob(k, l, 1, 2)>> >>)>>,
           <<CardsPage(<< <<IndeedTaskJob(k, l, 1, 1)>> >>),
             CardsPage(<< <<IndeedTaskJob(k, l, 2, 1)>> >>)>> }
    ELSE IndeedScripts

JSearchScriptsOf(cfg, k, l) ==
    IF Wide(cfg) THEN {<<>>, <<DataPage(<< <<JSearchTaskJob(k, l, 1, 1)>> >>)>>}
    ELSE JSearchScripts

\* delay_between_requests as the configuration file gives it: the default, or
\* a negative number.
Delays == {2, -1}

Configs ==
    [keywords : 1..MaxKeywords, locations : 1..MaxLocations,
     max_jobs_per_platform : 1..MaxLimit,
     delay_between_requests : Delays,
     indeed : BOOLEAN, jsearch : BOOLEAN, jsearch_api_key : {"", "key"}]

\* _initialize_scrapers without the test of the API key, against which the
\* claim on missing credentials is tested.
initialize_scrapers_keyless(cfg) ==
    (IF cfg.indeed THEN <<"indeed">> ELSE <<>>)
    \o (IF cfg.jsearch THEN <<"jsearch">> ELSE <<>>)

\* JobScraperOrchestrator._initialize_scrapers
initialize_scrapers(cfg) ==
    (IF cfg.indeed THEN <<"indeed">> ELSE <<>>)
    \o (IF cfg.jsearch /\ cfg.jsearch_api_key # "" THEN <<"jsearch">> ELSE <<>>)

Range(f) == {f[i] : i \in DOMAIN f}

\* ScraperStats as the scraper's __init__ creates it
NewStats ==
    [jobs_found |-> 0, jobs_saved |-> 0, errors |-> 0, error_messages |-> <<>>,
     end_time |-> 0]

\* stats.errors += 1; stats.error_messages.append(message)
record_error(st, message) ==
    [st EXCEPT !.errors = st.errors + 1,
               !.error_messages = Append(st.error_messages, message)]

Init ==
    /\ config \in Configs
    /\ scrapers = initialize_scrapers(config)
    /\ stats = [p \in Range(scrapers) |-> NewStats]
    /\ driver = [p \in Range(scrapers) |-> "None"]
    /\ sessions = 0
    /\ session_pc = "idle"
    /\ cur = 0
    /\ all_jobs = <<>>
    /\ all_stats = <<>>
    /\ returned = <<>>
    /\ session_unique = <<>>
    /\ jobs_file = <<>>
    /\ run_pc = "idle"
    /\ ki = 0
    /\ li = 0
    /\ run_jobs = <<>>
    /\ task_log = <<>>
    /\ DedupIdle
    /\ SalaryIdle
    /\ NormIdle
    /\ FetchIdle
    /\ LoopIdle
    /\ MergeIdle

\* run_scraping_session is entered: by schedule_scraping at once, and again by
\* the scheduler after a session that returned.
StartSession ==
    /\ session_pc \in {"idle", "done"}
    /\ sessions < MaxSessions
    /\ sessions' = sessions + 1
    /\ session_pc' = "loop"
    /\ cur' = 1
    /\ all_jobs' = <<>>
    /\ all_stats' = <<>>
    /\ returned' = <<>>
    /\ session_unique' = <<>>
    /\ jobs_file' = <<>>
    /\ UNCHANGED <<config, scrapers, stats, driver, run_pc, ki, li, run_jobs, task_log>>
    /\ UNCHANGED <<dedupVars, salaryVars, normVars, fetchVars, loopVars, mergeVars>>

\* What run_scraping_session does with the list run() returned.
AfterRun(p, result) ==
    /\ all_jobs' = all_jobs \o result
    /\ all_stats' = Append(all_stats, p)
    /\ returned' = Append(returned, result)
    /\ cur' = cur + 1
    /\ run_pc' = "idle"

\* The scraper whose run() the session loop is at.
Running == scrapers[cur]

\* The nested loops the other way round (keywords inner), against which the
\* claim on the order of the tasks is tested.
NextTask_keywords_inner ==
    IF ki < config.keywords
    THEN ki' = ki + 1 /\ li' = li
    ELSE ki' = 1 /\ li' = li + 1

\* The nested for-loops of run(): locations inner, keywords outer.
NextTask ==
    IF li < config.locations
    THEN ki' = ki /\ li' = li + 1
    ELSE ki' = ki + 1 /\ li' = 1

\* A run() whose delay stands inside the try block, after the fetch, against
\* which the claim on the delay between tasks is tested.
rate_limits_after_task_in_try(failure) == IF failure = "raised" THEN 0 ELSE 1

\* The task loop of run() calls the delay between requests after the
\* try/except of the task: once, whether scrape_jobs returned or raised.
rate_limits_after_task(failure) == 1

\* messages: how many entries the fetch added to stats.error_messages;
\* rate_limits: how many times run() called the delay between requests after
\* the fetch of the task.
TaskEntry(result, failure, requests, messages) ==
    [keyword |-> ki, location |-> li, jobs |-> result, failure |-> failure,
     requests |-> requests, messages |-> messages,
     rate_limits |-> rate_limits_after_task(failure)]

\* time.sleep(seconds) raises ValueError for a negative argument.
sleep_raises(seconds) == seconds < 0

\* A run() without the assignment of its finally block, against which the
\* claim on end_time is tested.
run_finally_skipped(st, now) == st

\* The finally block of run(): stats.end_time = datetime.now()
run_finally(st, now) == [st EXCEPT !.end_time = now]

\* BaseScraper.close_driver: quit() is called on the driver there is.
close_driver(d) == IF d = "None" THEN "None" ELSE "quit"

\* IndeedScraper.scrape_jobs when apply_rate_limit raises: the call after the
\* first page with cards raises inside the try block and ends the page loop.
indeed_scrape_jobs_sleep_raises(pages, max_jobs) ==
    IF max_jobs <= 0
    THEN [jobs |-> <<>>, requests |-> 0, rate_limits |-> 0, failure |-> "none"]
    ELSE LET resp == IF pages # <<>> THEN pages[1] ELSE CardsPage(<<>>)
         IN  IF resp.kind # "cards"
             THEN [jobs |-> <<>>, requests |-> 1, rate_limits |-> 0, failure |-> resp.kind]
             ELSE IF resp.items = <<>>
             THEN [jobs |-> <<>>, requests |-> 1, rate_limits |-> 0, failure |-> "none"]
             ELSE [jobs |-> collect_items(resp.items, 1, <<>>, max_jobs), requests |-> 1,
                   rate_limits |-> 1, failure |-> "error"]

\* The end of one pass of the task loop of run(), for scraper p whose stats
\* are st by now and whose all_jobs is result: the delay between requests.
\* When the sleep raises, the outer handler of run() records a fatal error,
\* the finally block runs, and run() returns what it has, jobs_saved untouched.
AfterTask(p, st, result) ==
    IF sleep_raises(config.delay_between_requests)
    THEN /\ stats' = [stats EXCEPT ![p] = run_finally(record_error(st, FatalMessage), sessions)]
         /\ driver' = [driver EXCEPT ![p] = close_driver(driver[p])]
         /\ AfterRun(p, result)
         /\ UNCHANGED <<ki, li>>
    ELSE /\ stats' = [stats EXCEPT ![p] = st]
         /\ NextTask
         /\ UNCHANGED <<driver, cur, all_jobs, all_stats, returned, run_pc>>

\* BaseScraper.run up to the task loop: initialize_driver succeeds.
IndeedRunStart ==
    /\ session_pc = "loop" /\ run_pc = "idle" /\ cur <= Len(scrapers)
    /\ Running = "indeed"
    /\ driver' = [driver EXCEPT !["indeed"] = "open"]
    /\ run_pc' = "tasks"
    /\ ki' = 1
    /\ li' = 1
    /\ run_jobs' = <<>>
    /\ task_log' = <<>>
    /\ UNCHANGED <<config, scrapers, stats, sessions, session_pc, cur, all_jobs,
                   all_stats, returned, session_unique, jobs_file>>
    /\ UNCHANGED <<dedupVars, salaryVars, normVars, fetchVars, loopVars, mergeVars>>

\* BaseScraper.run when initialize_driver raises: initialize_driver records the
\* error and re-raises, the outer handler of run() records it again, the
\* finally block closes whatever driver there is and sets end_time, and run()
\* returns the empty all_jobs to the session.
IndeedDriverFails ==
    /\ session_pc = "loop" /\ run_pc = "idle" /\ cur <= Len(scrapers)
    /\ Running = "indeed"
    /\ stats' = [stats EXCEPT !["indeed"] =
                    run_finally(record_error(record_error(stats["indeed"], WebDriverMessage),
                                             FatalMessage),
                                sessions)]
    /\ driver' = [driver EXCEPT !["indeed"] = close_driver(driver["indeed"])]
    /\ task_log' = <<>>
    /\ run_jobs' = <<>>
    /\ AfterRun("indeed", <<>>)
    /\ UNCHANGED <<config, scrapers, sessions, session_pc, session_unique, jobs_file, ki, li>>
    /\ UNCHANGED <<dedupVars, salaryVars, normVars, fetchVars, loopVars, mergeVars>>

\* JSearchScraper.run up to the task loop (there is no driver).
JSearchRunStart ==
    /\ session_pc = "loop" /\ run_pc = "idle" /\ cur <= Len(scrapers)
    /\ Running = "jsearch"
    /\ run_pc' = "tasks"
    /\ ki' = 1
    /\ li' = 1
    /\ run_jobs' = <<>>
    /\ task_log' = <<>>
    /\ UNCHANGED <<config, scrapers, stats, driver, sessions, session_pc, cur, all_jobs,
                   all_stats, returned, session_unique, jobs_file>>
    /\ UNCHANGED <<dedupVars, salaryVars, normVars, fetchVars, loopVars, mergeVars>>

\* One pass of the task loop of BaseScraper.run with IndeedScraper.scrape_jobs:
\* the scrape never raises, whatever the pages do.
IndeedFetchTask ==
    /\ run_pc = "tasks" /\ Running = "indeed" /\ ki <= config.keywords
    /\ \E pages \in IndeedScriptsOf(config, ki, li) :
          LET r == IF sleep_raises(config.delay_between_requests)
                   THEN indeed_scrape_jobs_sleep_raises(pages, config.max_jobs_per_platform)
                   ELSE indeed_scrape_jobs(pages, config.max_jobs_per_platform)
              st == stats["indeed"]
          IN  /\ run_jobs' = run_jobs \o r.jobs
              /\ task_log' = Append(task_log, TaskEntry(r.jobs, r.failure, r.requests, 0))
              /\ AfterTask("indeed",
                           [st EXCEPT !.jobs_found = st.jobs_found + Len(r.jobs)],
                           run_jobs \o r.jobs)
    /\ UNCHANGED <<config, scrapers, sessions, session_pc, session_unique, jobs_file>>
    /\ UNCHANGED <<dedupVars, salaryVars, normVars, fetchVars, loopVars, mergeVars>>

\* One pass of the task loop of BaseScraper.run when scrape_jobs raises:
\* scrape_jobs is abstract in BaseScraper, and run() is written for an
\* implementation that raises.
ScrapeJobsRaises ==
    /\ run_pc = "tasks" /\ Running = "indeed" /\ ki <= config.keywords
    /\ ~Wide(config)
    /\ task_log' = Append(task_log, TaskEntry(<<>>, "raised", 1, 1))
    /\ run_jobs' = run_jobs
    /\ AfterTask("indeed", record_error(stats["indeed"], TaskMessage(ki, li)), run_jobs)
    /\ UNCHANGED <<config, scrapers, sessions, session_pc, session_unique, jobs_file>>
    /\ UNCHANGED <<dedupVars, salaryVars, normVars, fetchVars, loopVars, mergeVars>>

\* One pass of the task loop of JSearchScraper.run: scrape_jobs counts its own
\* errors and never raises.
JSearchFetchTask ==
    /\ run_pc = "tasks" /\ Running = "jsearch" /\ ki <= config.keywords
    /\ \E pages \in JSearchScriptsOf(config, ki, li) :
          LET r == jsearch_scrape_jobs(pages, config.max_jobs_per_platform)
              st == stats["jsearch"]
          IN  /\ run_jobs' = run_jobs \o r.jobs
              /\ task_log' = Append(task_log, TaskEntry(r.jobs, r.failure, r.requests,
                                                         Len(r.messages)))
              /\ AfterTask("jsearch",
                           [st EXCEPT !.errors = st.errors + r.errors,
                                      !.error_messages = st.error_messages \o r.messages,
                                      !.jobs_found = st.jobs_found + Len(r.jobs)],
                           run_jobs \o r.jobs)
    /\ UNCHANGED <<config, scrapers, sessions, session_pc, session_unique, jobs_file>>
    /\ UNCHANGED <<dedupVars, salaryVars, normVars, fetchVars, loopVars, mergeVars>>

\* The task loop is over: jobs_saved, the finally block (close_driver,
\* end_time), and the return to run_scraping_session.
FinishRun ==
    /\ run_pc = "tasks" /\ ki > config.keywords
    /\ stats' = [stats EXCEPT ![Running] =
                    run_finally([stats[Running] EXCEPT !.jobs_saved = Len(run_jobs)],
                                sessions)]
    /\ driver' = [driver EXCEPT ![Running] = close_driver(driver[Running])]
    /\ AfterRun(Running, run_jobs)
    /\ UNCHANGED <<config, scrapers, sessions, session_pc, session_unique, jobs_file,
                   ki, li, run_jobs, task_log>>
    /\ UNCHANGED <<dedupVars, salaryVars, normVars, fetchVars, loopVars, mergeVars>>

\* run_scraping_session after the scraper loop: deduplicate, save, summarise,
\* return.  generate_hash raising aborts the session there.
EndSession ==
    /\ session_pc = "loop" /\ run_pc = "idle" /\ cur > Len(scrapers)
    /\ IF deduplicate_jobs_raises(all_jobs)
       THEN /\ session_pc' = "raised"
            /\ UNCHANGED <<session_unique, jobs_file>>
       ELSE /\ session_pc' = "done"
            /\ session_unique' = deduplicate_jobs(all_jobs)
            /\ jobs_file' = IF deduplicate_jobs(all_jobs) # <<>>
                            THEN <<deduplicate_jobs(all_jobs)>> ELSE <<>>
    /\ UNCHANGED <<config, scrapers, stats, driver, sessions, cur, all_jobs, all_stats,
                   returned, run_pc, ki, li, run_jobs, task_log>>
    /\ UNCHANGED <<dedupVars, salaryVars, normVars, fetchVars, loopVars, mergeVars>>

Next ==
    \/ StartSession
    \/ IndeedRunStart
    \/ IndeedDriverFails
    \/ JSearchRunStart
    \/ IndeedFetchTask
    \/ ScrapeJobsRaises
    \/ JSearchFetchTask
    \/ FinishRun
    \/ EndSession

Spec == Init /\ [][Next]_vars

(***************************************************************************)
(* Claims on sessions.                                                     *)
(***************************************************************************)

\* run() of the scraper last appended to all_stats has returned to the session.
RunReturned == session_pc \in {"loop", "done", "raised"} /\ run_pc = "idle" /\ all_stats # <<>>

LastRun == all_stats[Len(all_stats)]

Triple(job) == <<job.title, job.company, job.location>>

\* Two sources ran in the session that has just returned, and each returned
\* exactly one job: the same (title, company, location), another platform and
\* another job_id.
TwoSourcesOneJobEach ==
    /\ session_pc = "done"
    /\ Len(returned) = 2
    /\ Len(returned[1]) = 1
    /\ Len(returned[2]) = 1
    /\ Triple(returned[1][1]) = Triple(returned[2][1])
    /\ returned[1][1].platform # returned[2][1].platform
    /\ returned[1][1].job_id # returned[2][1].job_id

\* C4: when two sources of one session each return exactly one job with the
\* same (title, company, location) but another platform and job_id, the session
\* returns and saves exactly the job of the source that ran first, and the
\* jobs_found of each source is 1.
C4_CrossSourceDedup ==
    TwoSourcesOneJobEach =>
        /\ session_unique = <<returned[1][1]>>
        /\ jobs_file = <<session_unique>>
        /\ \A p \in Range(scrapers) : stats[p].jobs_found = 1

RaisedTasks == {i \in DOMAIN task_log : task_log[i].failure = "raised"}

RECURSIVE FlattenJobs(_)
FlattenJobs(entries) ==
    IF entries = <<>> THEN <<>> ELSE entries[1].jobs \o FlattenJobs(Tail(entries))

\* C5: when a run has returned in which the fetch of exactly one task (X, Y)
\* raised, every task of the keyword x location cross-product was fetched, the
\* jobs of every task are in the returned list, and the source's
\* error_messages is exactly the one entry for (X, Y).
C5_TaskFailureIsolation ==
    (RunReturned /\ Cardinality(RaisedTasks) = 1) =>
        /\ {<<task_log[i].keyword, task_log[i].location>> : i \in DOMAIN task_log}
              = (1..config.keywords) \X (1..config.locations)
        /\ returned[Len(returned)] = FlattenJobs(task_log)
        /\ \A i \in RaisedTasks :
              stats[LastRun].error_messages
                  = <<TaskMessage(task_log[i].keyword, task_log[i].location)>>

\* C6: every task fetch that failed (page timeout or page error of Indeed;
\* 429, 403, another HTTP error or a transport error of JSearch; a raise) added
\* an entry to the error_messages of its source.
C6_FailuresRecorded ==
    \A i \in DOMAIN task_log :
        task_log[i].failure # "none" => task_log[i].messages >= 1

(***************************************************************************)
(* SpecFetch: one scrape_jobs call of one adapter.  The pages the site     *)
(* gives and the limit are drawn at the start; the call is one step.       *)
(***************************************************************************)

\* python_org_scraper.py: "max_pages = 5"
max_pages == 5

\* PythonOrgScraper.scrape_jobs: page_number counts from 1; an item is <<job>>,
\* or <<>> when extract_job_from_listing raises or returns None, or when the
\* job does not match the criteria.  Every exception of a page ends the loop.
RECURSIVE python_org_pages(_, _, _, _)
python_org_pages(pages, max_jobs, jobs, page_number) ==
    IF Len(jobs) >= max_jobs \/ page_number > max_pages
    THEN [jobs |-> jobs, requests |-> page_number - 1, rate_limits |-> page_number - 1,
          failure |-> "none"]
    ELSE LET resp == IF page_number <= Len(pages) THEN pages[page_number]
                     ELSE CardsPage(<<>>)
         IN  IF resp.kind # "cards"
             THEN [jobs |-> jobs, requests |-> page_number,
                   rate_limits |-> page_number - 1, failure |-> resp.kind]
             ELSE IF resp.items = <<>>
             THEN [jobs |-> jobs, requests |-> page_number,
                   rate_limits |-> page_number - 1, failure |-> "none"]
             ELSE python_org_pages(pages, max_jobs,
                                   collect_items(resp.items, 1, jobs, max_jobs),
                                   page_number + 1)

python_org_scrape_jobs(pages, max_jobs) == python_org_pages(pages, max_jobs, <<>>, 1)

MaxPageItems == 2
MaxPages == 2
MaxFetchLimit == 3

\* The job that item pos of page p gives.
FetchJob(p, pos) == [page |-> p, pos |-> pos]

\* A page whose item i gives a job iff flags[i].
ItemsOf(p, flags) ==
    [i \in 1..Len(flags) |-> IF flags[i] THEN <<FetchJob(p, i)>> ELSE <<>>]

FailureKinds(a) ==
    CASE a = "indeed" -> {"timeout", "error"}
      [] a = "jsearch" -> {"429", "403", "http_error", "transport_error"}
      [] a = "python_org" -> {"error"}

\* The shapes of one page of results: up to MaxPageItems items, or a full page
\* of PageSize items (all of them jobs, or only the first), or a failure.
PageShapes(a) ==
    {[kind |-> "items", flags |-> f] :
        f \in SeqsUpTo(BOOLEAN, MaxPageItems)
              \cup {[i \in 1..PageSize |-> TRUE], [i \in 1..PageSize |-> i = 1]}}
    \cup {[kind |-> k, flags |-> <<>>] : k \in FailureKinds(a)}

\* More pages than max_pages: one item each, and only the last one is a job.
LongScript ==
    [p \in 1..(max_pages + 1) |-> [kind |-> "items", flags |-> <<p = max_pages + 1>>]]

FetchScripts(a) == SeqsUpTo(PageShapes(a), MaxPages) \cup {LongScript}

BuildPages(a, script) ==
    [p \in 1..Len(script) |->
        IF script[p].kind = "items"
        THEN IF a = "jsearch" THEN DataPage(ItemsOf(p, script[p].flags))
             ELSE CardsPage(ItemsOf(p, script[p].flags))
        ELSE StatusPage(script[p].kind)]

InitFetch ==
    /\ fetch_pc = "ready"
    /\ fetch_adapter \in {"indeed", "jsearch", "python_org"}
    /\ fetch_pages \in {BuildPages(fetch_adapter, script) : script \in FetchScripts(fetch_adapter)}
    /\ fetch_limit \in 0..MaxFetchLimit
    /\ fetch_result = <<>>
    /\ DedupIdle
    /\ SalaryIdle
    /\ NormIdle
    /\ SessionIdle
    /\ LoopIdle
    /\ MergeIdle

IndeedScrapeJobs ==
    /\ fetch_pc = "ready" /\ fetch_adapter = "indeed"
    /\ fetch_result' = <<indeed_scrape_jobs(fetch_pages, fetch_limit)>>
    /\ fetch_pc' = "done"
    /\ UNCHANGED <<fetch_adapter, fetch_pages, fetch_limit>>
    /\ UNCHANGED <<dedupVars, salaryVars, normVars, sessionVars, loopVars, mergeVars>>

JSearchScrapeJobs ==
    /\ fetch_pc = "ready" /\ fetch_adapter = "jsearch"
    /\ fetch_result' = <<jsearch_scrape_jobs(fetch_pages, fetch_limit)>>
    /\ fetch_pc' = "done"
    /\ UNCHANGED <<fetch_adapter, fetch_pages, fetch_limit>>
    /\ UNCHANGED <<dedupVars, salaryVars, normVars, sessionVars, loopVars, mergeVars>>

PythonOrgScrapeJobs ==
    /\ fetch_pc = "ready" /\ fetch_adapter = "python_org"
    /\ fetch_result' = <<python_org_scrape_jobs(fetch_pages, fetch_limit)>>
    /\ fetch_pc' = "done"
    /\ UNCHANGED <<fetch_adapter, fetch_pages, fetch_limit>>
    /\ UNCHANGED <<dedupVars, salaryVars, normVars, sessionVars, loopVars, mergeVars>>

NextFetch == IndeedScrapeJobs \/ JSearchScrapeJobs \/ PythonOrgScrapeJobs

SpecFetch == InitFetch /\ [][NextFetch]_vars

(***************************************************************************)
(* Claims on one fetch.                                                    *)
(***************************************************************************)

FetchDone == fetch_pc = "done"

Fetched == fetch_result[1]

\* The pages that were requested and gave items.
ItemPagesRequested ==
    {p \in 1..Len(fetch_pages) :
        p <= Fetched.requests /\ fetch_pages[p].kind \in {"cards", "ok"}}

GoodItems(p) == {i \in DOMAIN fetch_pages[p].items : fetch_pages[p].items[i] # <<>>}

\* C11: one scrape_jobs call returns at most max_jobs_per_platform records,
\* whatever the limit (0 included) and the pages, also when the limit is
\* reached in the middle of a page.
C11_FetchWithinLimit ==
    FetchDone => Len(Fetched.jobs) <= fetch_limit

\* The limit was reached in the middle of a page: a job of a requested page
\* was left out.
C11_Witness ==
    /\ FetchDone
    /\ fetch_limit > 0
    /\ Len(Fetched.jobs) = fetch_limit
    /\ \E p \in ItemPagesRequested : \E i \in GoodItems(p) :
          /\ i < Len(fetch_pages[p].items)
          /\ \A k \in DOMAIN Fetched.jobs : Fetched.jobs[k] # FetchJob(p, i)

\* job a comes before job b in the order of pages and of positions in a page
JobBefore(a, b) == a.page < b.page \/ (a.page = b.page /\ a.pos < b.pos)

\* C12: an item whose extraction or parsing fails is skipped: the fetch does
\* not fail for it, every item of a requested page that gives a job is
\* returned unless the limit is reached, and the jobs are returned in the
\* order of pages and positions.
C12_MalformedItemSkipped ==
    FetchDone =>
        /\ \A p \in ItemPagesRequested : \A i \in GoodItems(p) :
              \/ \E k \in DOMAIN Fetched.jobs : Fetched.jobs[k] = FetchJob(p, i)
              \/ Len(Fetched.jobs) >= fetch_limit
        /\ \A k, m \in DOMAIN Fetched.jobs :
              k < m => JobBefore(Fetched.jobs[k], Fetched.jobs[m])
        /\ (\A p \in 1..Len(fetch_pages) : fetch_pages[p].kind \in {"cards", "ok"})
              => Fetched.failure = "none"

\* A page with a malformed item before a well-formed one, which was returned.
C12_Witness ==
    /\ FetchDone
    /\ \E p \in ItemPagesRequested : \E i \in GoodItems(p) :
          /\ i > 1
          /\ fetch_pages[p].items[i - 1] = <<>>
          /\ \E k \in DOMAIN Fetched.jobs : Fetched.jobs[k] = FetchJob(p, i)

(***************************************************************************)
(* Claims on the failures of the API adapter within a run.                 *)
(***************************************************************************)

\* C13: after a 429 response the API adapter issues no further request in the
\* run: not for the task that got the 429 (no retry) and not for any
\* remaining task of the source.
C13_RateLimitAbandonsSource ==
    \A i \in DOMAIN task_log :
        task_log[i].failure = "429" =>
            \A j \in DOMAIN task_log : j > i => task_log[j].requests = 0

\* C14: a 403 response makes scrape_jobs raise to the run loop, which records
\* the failure of that task with its error message; the request is not
\* repeated.
C14_AuthFailureRaised ==
    \A i \in DOMAIN task_log :
        task_log[i].failure = "403" =>
            /\ TaskMessage(task_log[i].keyword, task_log[i].location)
                  \in Range(stats["jsearch"].error_messages)
            /\ task_log[i].requests = 1

(***************************************************************************)
(* Claims on the stats of a run.                                           *)
(***************************************************************************)

Last(seq) == seq[Len(seq)]

\* C15: on every path by which run() ends (all tasks done, some failed, the
\* driver not initialised, an exception out of the task loop) end_time has
\* been set in this run when run() returns, and the driver, if there is one,
\* has been closed.
C15_StatsFinalized ==
    RunReturned =>
        /\ stats[LastRun].end_time = sessions
        /\ driver[LastRun] # "open"

\* run() of the browser scraper has returned through its outer handler after
\* an exception escaped the task loop.
C15_Witness ==
    /\ RunReturned
    /\ LastRun = "indeed"
    /\ task_log # <<>>
    /\ stats[LastRun].error_messages # <<>>
    /\ Last(stats[LastRun].error_messages) = FatalMessage
    /\ stats[LastRun].end_time = sessions
    /\ driver[LastRun] = "quit"

\* The session loop is about to call run() of the scraper at cur.
RunStarts == session_pc = "loop" /\ run_pc = "idle" /\ cur <= Len(scrapers)

\* C16: every run starts on stats of its own: when run() is called, in the
\* first session and in every later one, the scraper's jobs_found and errors
\* are 0 and its error_messages is empty.
C16_FreshStatsPerRun ==
    RunStarts =>
        /\ stats[Running].jobs_found = 0
        /\ stats[Running].errors = 0
        /\ stats[Running].error_messages = <<>>

\* C17: when run() has returned, the scraper's jobs_saved is the length of the
\* list it returned, and equals its jobs_found; the deduplication of the
\* session does not change it.
C17_JobsSavedIsYield ==
    RunReturned =>
        /\ stats[LastRun].jobs_saved = Len(Last(returned))
        /\ stats[LastRun].jobs_saved = stats[LastRun].jobs_found

(***************************************************************************)
(* Claims on the orchestrator.                                             *)
(***************************************************************************)

SessionOver == session_pc \in {"done", "raised"}

\* C18: when jsearch is enabled and jsearch_api_key is empty, the orchestrator
\* is constructed with the API adapter left out and every other enabled
\* adapter in; the API adapter never runs, and the others have all run when
\* the session is over.
C18_MissingKeyDisablesOnlyJSearch ==
    (config.jsearch /\ config.jsearch_api_key = "") =>
        /\ scrapers = (IF config.indeed THEN <<"indeed">> ELSE <<>>)
        /\ DOMAIN stats = Range(scrapers)
        /\ (run_pc = "tasks" => Running # "jsearch")
        /\ (SessionOver => all_stats = scrapers)

\* jsearch is enabled without a key, and the session of the other adapter is
\* over with jobs.
C18_Witness ==
    /\ config.jsearch /\ config.jsearch_api_key = ""
    /\ config.indeed
    /\ session_pc = "done"
    /\ all_stats = <<"indeed">>
    /\ session_unique # <<>>

RECURSIVE FlattenLists(_)
FlattenLists(lists) ==
    IF lists = <<>> THEN <<>> ELSE lists[1] \o FlattenLists(Tail(lists))

\* <<source, keyword, location, page, position>> of a job of a wide
\* configuration, the source as its place among the registered scrapers.
JobPlaces ==
    (DOMAIN scrapers) \X (1..config.keywords) \X (1..config.locations) \X (1..2) \X (1..2)

PlaceOf(job) ==
    CHOOSE t \in JobPlaces :
        job.job_id = TaskJobId(scrapers[t[1]], t[2], t[3], t[4], t[5])

LexLess(a, b) ==
    \E i \in DOMAIN a : a[i] < b[i] /\ \A j \in 1..(i - 1) : a[j] = b[j]

\* C19: the list handed to the deduplicator is in the order of the sources as
\* registered, then of the tasks (keywords outer, locations inner), then of
\* the pages, then of the positions in a page: the sources ran in the order
\* registered and all_jobs is their lists one after the other; a run's list
\* is the lists of its task fetches in the order of the tasks; and no job of
\* an earlier source, task, page or position comes after a later one (every
\* job is before its successor in the list, and the order is transitive).
C19_ResultOrder ==
    /\ \A i \in DOMAIN all_stats : all_stats[i] = scrapers[i]
    /\ (run_pc = "idle" /\ session_pc # "idle") => all_jobs = FlattenLists(returned)
    /\ RunReturned => Last(returned) = FlattenJobs(task_log)
    /\ \A i, j \in DOMAIN task_log :
          i < j => LexLess(<<task_log[i].keyword, task_log[i].location>>,
                           <<task_log[j].keyword, task_log[j].location>>)
    /\ Wide(config) =>
          \A i \in 1..(Len(all_jobs) - 1) :
              LexLess(PlaceOf(all_jobs[i]), PlaceOf(all_jobs[i + 1]))

\* A session of two sources over two keywords and two locations is over, with
\* jobs of both sources, of two keywords, of two locations and of two pages.
C19_Witness ==
    /\ Wide(config)
    /\ SessionOver
    /\ Len(returned) = 2
    /\ \E a, b \in DOMAIN all_jobs : PlaceOf(all_jobs[a])[1] # PlaceOf(all_jobs[b])[1]
    /\ \E a, b \in DOMAIN all_jobs :
          /\ PlaceOf(all_jobs[a])[1] = PlaceOf(all_jobs[b])[1]
          /\ PlaceOf(all_jobs[a])[2] # PlaceOf(all_jobs[b])[2]
    /\ \E a, b \in DOMAIN all_jobs :
          /\ PlaceOf(all_jobs[a])[1] = PlaceOf(all_jobs[b])[1]
          /\ PlaceOf(all_jobs[a])[2] = PlaceOf(all_jobs[b])[2]
          /\ PlaceOf(all_jobs[a])[3] # PlaceOf(all_jobs[b])[3]
    /\ \E a \in DOMAIN all_jobs : PlaceOf(all_jobs[a])[4] = 2
    /\ \E a \in DOMAIN all_jobs : PlaceOf(all_jobs[a])[5] = 2

\* C20: a session never raises; when it is over, the stats for the summary
\* have one entry for every adapter, and an empty deduplicated result means
\* that no job file was written.
C20_SessionReachesSummary ==
    /\ session_pc # "raised"
    /\ session_pc = "done" =>
          /\ all_stats = scrapers
          /\ (session_unique = <<>> => jobs_file = <<>>)

(***************************************************************************)
(* Claims on the precedence of the classifiers.                            *)
(***************************************************************************)

\* The snippet of a job card holds a contract keyword, a part-time keyword.
ContractSignal == AnyIn({<<"c", "o", "n", "t", "r", "a", "c", "t">>, <<"c", "o", "n", "t", "r", "a", "c", "t", "o", "r">>}, Lower(raw.snippet))
PartTimeSignal == AnyIn({<<"p", "a", "r", "t", "-", "t", "i", "m", "e">>, <<"p", "a", "r", "t", " ", "t", "i", "m", "e">>}, Lower(raw.snippet))

\* C23: in the Indeed classifier a snippet with both a contract keyword and a
\* part-time keyword is classified contract.
C23_ContractBeatsPartTime ==
    (NormDone /\ adapter = "indeed") =>
        ((ContractSignal /\ PartTimeSignal) => norm_job[1].job_type = contract)

\* The senior and the entry keywords of each adapter, as its code lists them.
SeniorKeywordsOf(a) ==
    IF a = "jsearch"
    THEN {<<"s", "e", "n", "i", "o", "r">>, <<"s", "r", ".">>, <<"l", "e", "a", "d">>, <<"p", "r", "i", "n", "c", "i", "p", "a", "l">>, <<"s", "t", "a", "f", "f">>, <<"a", "r", "c", "h", "i", "t", "e", "c", "t">>, <<"d", "i", "r", "e", "c", "t", "o", "r">>}
    ELSE {<<"s", "e", "n", "i", "o", "r">>, <<"l", "e", "a", "d">>, <<"p", "r", "i", "n", "c", "i", "p", "a", "l">>}

EntryKeywordsOf(a) ==
    CASE a = "jsearch" -> {<<"j", "u", "n", "i", "o", "r">>, <<"j", "r", ".">>, <<"e", "n", "t", "r", "y">>, <<"a", "s", "s", "o", "c", "i", "a", "t", "e">>, <<"g", "r", "a", "d", "u", "a", "t", "e">>, <<"i", "n", "t", "e", "r", "n">>}
      [] a = "indeed" -> {<<"j", "u", "n", "i", "o", "r">>, <<"e", "n", "t", "r", "y">>, <<"a", "s", "s", "o", "c", "i", "a", "t", "e">>}
      [] a = "python_org" -> {<<"j", "u", "n", "i", "o", "r">>, <<"e", "n", "t", "r", "y">>, <<"i", "n", "t", "e", "r", "n">>}

\* A keyword of the set is in the title or in the description.
InTitleOrDescription(words) ==
    AnyIn(words, Lower(RawTitle)) \/ AnyIn(words, Lower(RawDescription))

\* C24: in every adapter a record with a senior keyword in its title or
\* description is senior, also when an entry keyword is there too; a record
\* with an entry keyword and no senior keyword is entry; a record with neither
\* is mid.
C24_ExperiencePrecedence ==
    NormDone =>
        LET level == norm_job[1].experience_level
            is_senior == InTitleOrDescription(SeniorKeywordsOf(adapter))
            is_entry == InTitleOrDescription(EntryKeywordsOf(adapter))
        IN  /\ is_senior => level = senior
            /\ (is_entry /\ ~is_senior) => level = entry
            /\ (~is_entry /\ ~is_senior) => level = mid

\* An API item with a senior keyword in the title and an entry keyword in the
\* description, classified senior.
C24_Witness ==
    /\ NormDone
    /\ adapter = "jsearch"
    /\ AnyIn(SeniorKeywordsOf(adapter), Lower(RawTitle))
    /\ AnyIn(EntryKeywordsOf(adapter), Lower(RawDescription))
    /\ norm_job[1].experience_level = senior

(***************************************************************************)
(* Claims on the delays, the error counters and the limits of a run.       *)
(***************************************************************************)

C26_ErrorsMatchMessages ==
    \A p \in Range(scrapers) : stats[p].errors = Len(stats[p].error_messages)

\* C27: every job an adapter returned to the session has a title, a company
\* and a location that are not null, and the session never aborts in
\* deduplicate_jobs.
C27_DedupNeverFails ==
    /\ \A i \in DOMAIN all_jobs :
          /\ all_jobs[i].title # None
          /\ all_jobs[i].company # None
          /\ all_jobs[i].location # None
    /\ session_pc # "raised"

\* C29: a run() in which initialize_driver fails fetches no task, returns the
\* empty list, and adds exactly one error and one entry of error_messages to
\* the stats of the source.
C29_DriverFailureCountedOnce ==
    [][IndeedDriverFails =>
          /\ task_log' = <<>>
          /\ returned'[Len(returned')] = <<>>
          /\ stats'["indeed"].errors = stats["indeed"].errors + 1
          /\ Len(stats'["indeed"].error_messages)
                = Len(stats["indeed"].error_messages) + 1]_vars

\* C30: the list a run() returned and the jobs_found of its source are at most
\* max_jobs_per_platform.
C30_PlatformCap ==
    RunReturned =>
        /\ Len(Last(returned)) <= config.max_jobs_per_platform
        /\ stats[LastRun].jobs_found <= config.max_jobs_per_platform

(***************************************************************************)
(* SpecLoop: the page loop of IndeedScraper.scrape_jobs and of             *)
(* JSearchScraper.scrape_jobs, one pass of the while loop per step.  The   *)
(* site answers the n-th page of results with fetch_pages[n], and with an  *)
(* empty page beyond them.  A request returns (the driver and the API call *)
(* have timeouts), so a loop that can make a pass makes it.                *)
(***************************************************************************)

\* A loop that never tests the limit, against which the claim on the end of
\* the page-driven fetch is tested.
while_test_always(jobs, max_jobs) == TRUE

\* "while len(jobs) < self.config.max_jobs_per_platform"
while_test(jobs, max_jobs) == Len(jobs) < max_jobs

\* A loop that never takes a page for the last one, against which the claim
\* on the paging of the API is tested.
last_page_never(items) == FALSE

\* "if len(data['data']) < 10: break"
last_page(items) == Len(items) < PageSize

InitLoop ==
    /\ fetch_pc = "loop"
    /\ fetch_adapter \in {"indeed", "jsearch"}
    /\ fetch_pages \in {BuildPages(fetch_adapter, script) : script \in FetchScripts(fetch_adapter)}
    /\ fetch_limit \in 0..MaxFetchLimit
    /\ fetch_result = <<>>
    /\ loop_jobs = <<>>
    /\ loop_page = IF fetch_adapter = "jsearch" THEN 1 ELSE 0
    /\ requested = <<>>
    /\ DedupIdle
    /\ SalaryIdle
    /\ NormIdle
    /\ SessionIdle
    /\ MergeIdle

\* "return jobs", after the requests sent and with the way the loop ended.
LoopReturn(result, sent, failure) ==
    /\ fetch_pc' = "done"
    /\ fetch_result' = <<[jobs |-> result, requests |-> Len(sent), failure |-> failure]>>

\* One pass of the while loop of IndeedScraper.scrape_jobs: the test of the
\* limit, the request of the page (start = page * 10), the cards.
IndeedPass ==
    /\ fetch_pc = "loop" /\ fetch_adapter = "indeed"
    /\ IF ~while_test(loop_jobs, fetch_limit)
       THEN /\ LoopReturn(loop_jobs, requested, "none")
            /\ UNCHANGED loopVars
       ELSE LET resp == IF loop_page + 1 <= Len(fetch_pages) THEN fetch_pages[loop_page + 1]
                        ELSE CardsPage(<<>>)
                sent == Append(requested, loop_page)
            IN  /\ requested' = sent
                /\ IF resp.kind # "cards"
                   THEN /\ LoopReturn(loop_jobs, sent, resp.kind)
                        /\ UNCHANGED <<loop_jobs, loop_page>>
                   ELSE IF resp.items = <<>>
                   THEN /\ LoopReturn(loop_jobs, sent, "none")
                        /\ UNCHANGED <<loop_jobs, loop_page>>
                   ELSE /\ loop_jobs' = collect_items(resp.items, 1, loop_jobs, fetch_limit)
                        /\ loop_page' = loop_page + 1
                        /\ UNCHANGED <<fetch_pc, fetch_result>>
    /\ UNCHANGED <<fetch_adapter, fetch_pages, fetch_limit>>
    /\ UNCHANGED <<dedupVars, salaryVars, normVars, sessionVars, mergeVars>>

\* One pass of the while loop of JSearchScraper.scrape_jobs: the test of the
\* limit, the request with "page": str(page), the status, the items, the test
\* of the last page.
JSearchPass ==
    /\ fetch_pc = "loop" /\ fetch_adapter = "jsearch"
    /\ IF ~while_test(loop_jobs, fetch_limit)
       THEN /\ LoopReturn(loop_jobs, requested, "none")
            /\ UNCHANGED loopVars
       ELSE LET resp == IF loop_page \in 1..Len(fetch_pages) THEN fetch_pages[loop_page]
                        ELSE DataPage(<<>>)
                sent == Append(requested, loop_page)
                found == collect_items(resp.items, 1, loop_jobs, fetch_limit)
            IN  /\ requested' = sent
                /\ IF resp.kind # "ok"
                   THEN /\ LoopReturn(loop_jobs, sent, resp.kind)
                        /\ UNCHANGED <<loop_jobs, loop_page>>
                   ELSE IF resp.items = <<>>
                   THEN /\ LoopReturn(loop_jobs, sent, "none")
                        /\ UNCHANGED <<loop_jobs, loop_page>>
                   ELSE IF last_page(resp.items)
                   THEN /\ loop_jobs' = found
                        /\ LoopReturn(found, sent, "none")
                        /\ UNCHANGED loop_page
                   ELSE /\ loop_jobs' = found
                        /\ loop_page' = loop_page + 1
                        /\ UNCHANGED <<fetch_pc, fetch_result>>
    /\ UNCHANGED <<fetch_adapter, fetch_pages, fetch_limit>>
    /\ UNCHANGED <<dedupVars, salaryVars, normVars, sessionVars, mergeVars>>

NextLoop == IndeedPass \/ JSearchPass

SpecLoop == InitLoop /\ [][NextLoop]_vars /\ WF_vars(NextLoop)

(***************************************************************************)
(* Claims on the page loops.                                               *)
(***************************************************************************)

\* The jobs the items of the first n pages give.
RECURSIVE GoodCount(_)
GoodCount(n) == IF n = 0 THEN 0 ELSE GoodCount(n - 1) + Cardinality(GoodItems(n))

\* The n-th page of Indeed has cards, and with its cards the limit is not
\* reached.
IndeedGoesOn(n) ==
    /\ n <= Len(fetch_pages)
    /\ fetch_pages[n].kind = "cards"
    /\ fetch_pages[n].items # <<>>
    /\ GoodCount(n) < fetch_limit

\* Indeed is asked for a page only when there is a limit to reach, and for a
\* further page only when the page before had cards and left the limit
\* unreached.
IndeedStopsAtOnce ==
    /\ requested # <<>> => fetch_limit > 0
    /\ \A n \in 1..(Len(requested) - 1) : IndeedGoesOn(n)

\* C21: the page-driven fetch ends, and it requests no page after a page
\* without cards or after the limit is reached, also when cards fail their
\* extraction and add nothing to the jobs collected.
C21_IndeedFetchTerminates ==
    /\ [](fetch_adapter = "indeed" => IndeedStopsAtOnce)
    /\ ((fetch_adapter = "indeed") => <>(fetch_pc = "done"))

\* A fetch that ended at a page without cards, below the limit, after a page
\* all of whose cards failed their extraction.
C21_Witness ==
    /\ fetch_pc = "done" /\ fetch_adapter = "indeed"
    /\ fetch_result[1].failure = "none"
    /\ Len(loop_jobs) < fetch_limit
    /\ \E n \in 1..(Len(requested) - 1) :
          fetch_pages[n].items # <<>> /\ GoodItems(n) = {}

\* The n-th page of the API is a full page of data, and with its items the
\* limit is not reached.
JSearchGoesOn(n) ==
    /\ n <= Len(fetch_pages)
    /\ fetch_pages[n].kind = "ok"
    /\ Len(fetch_pages[n].items) >= PageSize
    /\ GoodCount(n) < fetch_limit

\* C22: the API is asked for the pages 1, 2, 3, ... in this order; page n + 1
\* is requested exactly when the limit is not reached and page n was a
\* successful response of at least 10 items; the fetch ends on a failed
\* request, on missing or empty data, on a page of fewer than 10 items (whose
\* items are processed), or when the limit is reached.
C22_JSearchPaging ==
    fetch_adapter = "jsearch" =>
        /\ \A i \in DOMAIN requested : requested[i] = i
        /\ requested # <<>> => fetch_limit > 0
        /\ \A n \in 1..(Len(requested) - 1) : JSearchGoesOn(n)
        /\ fetch_pc = "done" =>
              /\ IF requested = <<>> THEN fetch_limit = 0
                 ELSE ~JSearchGoesOn(Len(requested))
              /\ \A n \in DOMAIN requested :
                    (n <= Len(fetch_pages) /\ fetch_pages[n].kind = "ok") =>
                        \A i \in GoodItems(n) :
                            \/ \E k \in DOMAIN loop_jobs : loop_jobs[k] = FetchJob(n, i)
                            \/ Len(loop_jobs) >= fetch_limit

\* A full first page that left the limit unreached, then a page of fewer than
\* 10 items, whose job was collected.
C22_Witness ==
    /\ fetch_pc = "done" /\ fetch_adapter = "jsearch"
    /\ requested = <<1, 2>>
    /\ Len(fetch_pages) = 2
    /\ fetch_pages[2].kind = "ok"
    /\ Len(fetch_pages[2].items) \in 1..(PageSize - 1)
    /\ \E k \in DOMAIN loop_jobs : loop_jobs[k].page = 2

(***************************************************************************)
(* SpecMerge: save_jobs writes a list of jobs to a CSV file, and           *)
(* merge_with_existing merges new jobs into that file (csv_manager.py).    *)
(* A row holds the text of each field as the csv module writes it.         *)
(***************************************************************************)

\* csv.DictWriter writes None as the empty string, a string as it is.
write_field(v) == IF v = None THEN <<>> ELSE v

\* load_jobs: "if value == '': row[key] = None"
load_field(v) == IF v = <<>> THEN None ELSE v

\* save_jobs: no file for an empty list (<<>>), else one row per job.
save_jobs(jobs) ==
    [i \in 1..Len(jobs) |->
        [job_id |-> jobs[i].job_id, platform |-> jobs[i].platform,
         title |-> write_field(jobs[i].title),
         company |-> write_field(jobs[i].company),
         location |-> write_field(jobs[i].location)]]

\* load_jobs: JobListing(**row) for every row of the file.
load_jobs(file) ==
    [i \in 1..Len(file) |->
        SessionJob(file[i].job_id, file[i].platform, load_field(file[i].title),
                   load_field(file[i].company), load_field(file[i].location))]

MergeResult(raised, jobs) == [raised |-> raised, jobs |-> jobs]

\* merge_with_existing: an exception of the merge is logged and the new jobs
\* alone are deduplicated, outside the try block.
merge_with_existing(new, file) ==
    LET merged_jobs == load_jobs(file) \o new IN
    IF file # <<>> /\ ~deduplicate_jobs_raises(merged_jobs)
    THEN MergeResult(FALSE, deduplicate_jobs(merged_jobs))
    ELSE IF deduplicate_jobs_raises(new) THEN MergeResult(TRUE, <<>>)
    ELSE MergeResult(FALSE, deduplicate_jobs(new))

MaxExisting == 2
MaxNew == 2

\* Jobs as the adapters build them: the company is the empty string when the
\* card has no company element, None when the API gives a null employer_name.
ExistingRecords ==
    {SessionJob("e1", "indeed", t, c, s_ny) : t \in {s_Dev, s_dev}, c \in {s_acme, <<>>}}
NewRecords ==
    {SessionJob("n1", "linkedin", t, c, s_ny) : t \in {s_Dev, s_dev}, c \in {s_acme, <<>>, None}}

InitMerge ==
    /\ merge_pc = "input"
    /\ existing_jobs \in SeqsUpTo(ExistingRecords, MaxExisting)
    /\ new_jobs \in SeqsUpTo(NewRecords, MaxNew)
    /\ existing_file = <<>>
    /\ merged = <<>>
    /\ DedupIdle
    /\ SalaryIdle
    /\ NormIdle
    /\ SessionIdle
    /\ FetchIdle
    /\ LoopIdle

SaveJobs ==
    /\ merge_pc = "input"
    /\ existing_file' = save_jobs(existing_jobs)
    /\ merge_pc' = "saved"
    /\ UNCHANGED <<existing_jobs, new_jobs, merged>>
    /\ UNCHANGED <<dedupVars, salaryVars, normVars, sessionVars, fetchVars, loopVars>>

MergeWithExisting ==
    /\ merge_pc = "saved"
    /\ merged' = merge_with_existing(new_jobs, existing_file)
    /\ merge_pc' = "done"
    /\ UNCHANGED <<existing_jobs, existing_file, new_jobs>>
    /\ UNCHANGED <<dedupVars, salaryVars, normVars, sessionVars, fetchVars, loopVars>>

NextMerge == SaveJobs \/ MergeWithExisting

SpecMerge == InitMerge /\ [][NextMerge]_vars

(***************************************************************************)
(* Claims on the merge.                                                    *)
(***************************************************************************)

\* C28: when new jobs are merged into a file save_jobs wrote, the result is
\* deduplicate_jobs(existing jobs followed by new jobs) wherever that is
\* defined: every dedup key of an existing job is in the result, and it is
\* there with an existing record.
C28_MergeKeepsExisting ==
    (merge_pc = "done" /\ existing_file # <<>>
        /\ ~deduplicate_jobs_raises(existing_jobs \o new_jobs)) =>
        /\ ~merged.raised
        /\ merged.jobs = deduplicate_jobs(existing_jobs \o new_jobs)
        /\ \A i \in DOMAIN existing_jobs :
              \E k \in DOMAIN merged.jobs :
                  /\ LowerTriple(merged.jobs[k]) = LowerTriple(existing_jobs[i])
                  /\ merged.jobs[k].job_id = "e1"

====
